---------------------------- MODULE Spec2Model ----------------------------
(***************************************************************************)
(* Model of the fuzzy track matcher of the Spotify utilities:              *)
(*   SpotifyWebScraper._find_best_match   (spotify_web_scraper.py 176-208) *)
(*   SpotifyTokenScraper._find_best_match (spotify_token_scraper.py        *)
(*   389-419; the same statements, two comments apart).                    *)
(*                                                                         *)
(* A string is a sequence of characters, a character a one-element name.   *)
(* "eszett" stands for the letter U+00DF, which str.lower() leaves alone   *)
(* and str.upper() turns into "SS".  A track is the dictionary the matcher *)
(* reads: [name, artist_names].  A reference to a track of the list is its *)
(* index in the list, NoTrack is None.                                     *)
(*                                                                         *)
(* An invocation of the matcher is a frame holding its arguments and its   *)
(* locals; frame[f].pc is the statement the invocation is about to run.    *)
(*                                                                         *)
(* The callers of the matcher are modelled after it: search_track and      *)
(* _extract_track_info on the outcome of the HTTP request, and             *)
(* search_tracks_batch, whose invocation is the record `batch`; `sent` is  *)
(* the list of the requests sent so far, each with what came of it.  In    *)
(* the same way `add` is the invocation of add_tracks_to_playlist, `flow`  *)
(* that of create_playlist_from_songs, `call` that of a method sending one *)
(* request, and `manager` the construction of a SpotifyPlaylistManager.    *)
(* The token scraper's copy of the matcher is also written out on its own, *)
(* as functions, to be compared with the invocation of the web scraper's;  *)
(* an invocation of _format_duration is held in `call`.                    *)
(***************************************************************************)
EXTENDS Integers, Sequences, FiniteSets

VARIABLES frame, scraper, sent, batch, add, flow, call, manager

vars == <<frame, scraper, sent, batch, add, flow, call, manager>>

\* The variables of the matcher's callers: the requests sent so far and the
\* invocations of search_tracks_batch, add_tracks_to_playlist,
\* create_playlist_from_songs, of a single request method and of the
\* playlist manager's constructor.
callers == <<sent, batch, add, flow, call, manager>>

(***************************************************************************)
(* Bounds of the model.                                                    *)
(***************************************************************************)
MaxTracks == 3

MaxArtists == 2

NumFrames == 2

Frames == 1..NumFrames

(***************************************************************************)
(* Python's string operations, as the matcher uses them.                   *)
(***************************************************************************)
\* str.lower() on one character.
LowerChar(c) ==
    CASE c = "A" -> "a"
      [] c = "B" -> "b"
      [] c = "C" -> "c"
      [] c = "D" -> "d"
      [] c = "J" -> "j"
      [] c = "N" -> "n"
      [] c = "P" -> "p"
      [] c = "Q" -> "q"
      [] c = "R" -> "r"
      [] c = "S" -> "s"
      [] c = "T" -> "t"
      [] c = "U" -> "u"
      [] c = "X" -> "x"
      [] OTHER -> c

\* str.lower(): character by character.
Lower(s) == [k \in 1..Len(s) |-> LowerChar(s[k])]

\* Python's `sub in s` on strings: sub occurs in s as a contiguous run.
Contains(sub, s) ==
    \E k \in 0..(Len(s) - Len(sub)) : SubSeq(s, k + 1, k + Len(sub)) = sub

RECURSIVE SplitAcc(_, _, _)
\* The scan of str.split(): word is the token being read, out the tokens read.
SplitAcc(s, word, out) ==
    IF s = <<>>
    THEN IF word = <<>> THEN out ELSE Append(out, word)
    ELSE IF Head(s) = " "
         THEN SplitAcc(Tail(s), <<>>, IF word = <<>> THEN out ELSE Append(out, word))
         ELSE SplitAcc(Tail(s), Append(word, Head(s)), out)

\* str.split() without arguments: the maximal runs of non-whitespace, in order.
Split(s) == SplitAcc(s, <<>>, <<>>)

\* any(word in s for word in words)
AnyWordIn(words, s) == \E k \in 1..Len(words) : Contains(words[k], s)

(***************************************************************************)
(* The matcher's scoring.                                                  *)
(***************************************************************************)
NoTrack == 0

\* SongScore with `if` for `elif`: a title found whole in the track name
\* also counts for its words.
SongScore_bothAdded(target_song, track) ==
    (IF Contains(Lower(target_song), Lower(track.name)) THEN 3 ELSE 0)
    + (IF AnyWordIn(Split(Lower(target_song)), Lower(track.name)) THEN 1 ELSE 0)

\* SongScore with `else` for `elif`: a track name without any word of the
\* title still gets 1.
SongScore_elseAdds(target_song, track) ==
    IF Contains(Lower(target_song), Lower(track.name)) THEN 3 ELSE 1

\* Lines 188-192: the song name similarity added to the score.
SongScore(target_song, track) ==
    IF Contains(Lower(target_song), Lower(track.name))
    THEN 3
    ELSE IF AnyWordIn(Split(Lower(target_song)), Lower(track.name))
         THEN 1
         ELSE 0

RECURSIVE ArtistScore_targetNotLowered(_, _)
\* ArtistScore without line 179: the target artist name is compared as it was
\* given, capitals and all, with the lower-cased artist names.
ArtistScore_targetNotLowered(target_artist, artist_names) ==
    IF artist_names = <<>>
    THEN 0
    ELSE IF Contains(target_artist, Lower(Head(artist_names)))
         THEN 3
         ELSE IF AnyWordIn(Split(target_artist), Lower(Head(artist_names)))
              THEN 1
              ELSE ArtistScore_targetNotLowered(target_artist, Tail(artist_names))

RECURSIVE ArtistScore(_, _)
\* Lines 194-201: the artist loop; the first artist that matches at all, by
\* the full name or by one word, adds its points and breaks out of the loop.
ArtistScore(target_artist, artist_names) ==
    IF artist_names = <<>>
    THEN 0
    ELSE IF Contains(Lower(target_artist), Lower(Head(artist_names)))
         THEN 3
         ELSE IF AnyWordIn(Split(Lower(target_artist)), Lower(Head(artist_names)))
              THEN 1
              ELSE ArtistScore(target_artist, Tail(artist_names))

\* Lines 186-201: the score of one track.
TrackScore(target_song, target_artist, track) ==
    SongScore(target_song, track) + ArtistScore(target_artist, track.artist_names)

\* BetterThan with >= for >: a later track of equal score replaces the best.
BetterThan_orEqual(score, best_score) == score >= best_score

\* Line 203: score > best_score.
BetterThan(score, best_score) == score > best_score

\* ReturnValue with the threshold 1 for 2.
ReturnValue_threshold1(best_track, best_score) ==
    IF best_score >= 1 THEN best_track ELSE NoTrack

\* ReturnValue falling back to the first search result for None.
ReturnValue_firstResult(best_track, best_score) ==
    IF best_score >= 2 THEN best_track ELSE 1

\* Line 208: best_track if best_score >= 2 else None.
ReturnValue(best_track, best_score) ==
    IF best_score >= 2 THEN best_track ELSE NoTrack

RECURSIVE BestFold(_, _, _, _, _, _)
\* Lines 185-205 as a fold: the loop from track i on, carrying the best so far.
BestFold(target_song, target_artist, tracks, i, best_track, best_score) ==
    IF i > Len(tracks)
    THEN [best_track |-> best_track, best_score |-> best_score]
    ELSE LET s == TrackScore(target_song, target_artist, tracks[i])
         IN  IF BetterThan(s, best_score)
             THEN BestFold(target_song, target_artist, tracks, i + 1, i, s)
             ELSE BestFold(target_song, target_artist, tracks, i + 1,
                           best_track, best_score)

\* Lines 176-208: the function's value on its arguments.
FindBestMatch(target_song, target_artist, tracks) ==
    LET b == BestFold(target_song, target_artist, tracks, 1, NoTrack, 0)
    IN  ReturnValue(b.best_track, b.best_score)

(***************************************************************************)
(* The token scraper's copy of the matcher (spotify_token_scraper.py       *)
(* 389-419), statement by statement, as functions of its arguments.        *)
(***************************************************************************)
\* Token scraper, lines 400-404: the song name similarity.
TokenSongScore(target_song_lower, track) ==
    IF Contains(target_song_lower, Lower(track.name))
    THEN 3
    ELSE IF \E k \in 1..Len(Split(target_song_lower)) :
               Contains(Split(target_song_lower)[k], Lower(track.name))
         THEN 1
         ELSE 0

RECURSIVE TokenArtistScore_noBreak(_, _)
\* TokenArtistScore without the breaks of lines 410 and 413: every artist
\* that matches adds its points.
TokenArtistScore_noBreak(target_artist_lower, artist_names) ==
    IF artist_names = <<>>
    THEN 0
    ELSE (IF Contains(target_artist_lower, Lower(Head(artist_names)))
          THEN 3
          ELSE IF \E k \in 1..Len(Split(target_artist_lower)) :
                     Contains(Split(target_artist_lower)[k], Lower(Head(artist_names)))
               THEN 1
               ELSE 0)
         + TokenArtistScore_noBreak(target_artist_lower, Tail(artist_names))

RECURSIVE TokenArtistScore(_, _)
\* Token scraper, lines 407-413: the loop over track['artist_names'], left
\* by break at the first artist that adds to the score.
TokenArtistScore(target_artist_lower, artist_names) ==
    IF artist_names = <<>>
    THEN 0
    ELSE IF Contains(target_artist_lower, Lower(Head(artist_names)))
         THEN 3
         ELSE IF \E k \in 1..Len(Split(target_artist_lower)) :
                    Contains(Split(target_artist_lower)[k], Lower(Head(artist_names)))
              THEN 1
              ELSE TokenArtistScore(target_artist_lower, Tail(artist_names))

\* Token scraper, lines 398-413: the score of one track, on the targets
\* lower-cased by lines 391-392.
TokenTrackScore(target_song, target_artist, track) ==
    0 + TokenSongScore(Lower(target_song), track)
      + TokenArtistScore(Lower(target_artist), track.artist_names)

RECURSIVE TokenLoop(_, _, _, _, _, _)
\* Token scraper, lines 397-417: the loop from track i on; best_track and
\* best_score are replaced when score > best_score.
TokenLoop(target_song, target_artist, tracks, i, best_track, best_score) ==
    IF i > Len(tracks)
    THEN <<best_track, best_score>>
    ELSE IF TokenTrackScore(target_song, target_artist, tracks[i]) > best_score
         THEN TokenLoop(target_song, target_artist, tracks, i + 1, i,
                        TokenTrackScore(target_song, target_artist, tracks[i]))
         ELSE TokenLoop(target_song, target_artist, tracks, i + 1,
                        best_track, best_score)

\* Token scraper, lines 389-419: best_track if best_score >= 2 else None,
\* after the loop entered with None and 0 (lines 394-395).
TokenFindBestMatch(target_song, target_artist, tracks) ==
    LET end == TokenLoop(target_song, target_artist, tracks, 1, NoTrack, 0)
    IN  IF end[2] >= 2 THEN end[1] ELSE NoTrack

(***************************************************************************)
(* Inputs.                                                                 *)
(***************************************************************************)
\* Target song titles: "", " ", "A b", "eszett".
Songs ==
    { <<>>, <<" ">>, <<"A", " ", "b">>, <<"eszett">> }

\* Target artist names: "", " ", "p q".
TargetArtists ==
    { <<>>, <<" ">>, <<"p", " ", "q">> }

\* Track names of search results: "a b", "A B c", "b", "c", "eszett".
TrackNames ==
    { <<"a", " ", "b">>, <<"A", " ", "B", " ", "c">>, <<"b">>, <<"c">>,
      <<"eszett">> }

\* Artist names of search results: "p q", "P Q", "P", "r".
ArtistNames ==
    { <<"p", " ", "q">>, <<"P", " ", "Q">>, <<"P">>, <<"r">> }

\* The artist_names lists _extract_track_info can build: none to MaxArtists.
ArtistLists ==
    UNION { [1..n -> ArtistNames] : n \in 0..MaxArtists }

\* Every track over the names above.
Candidates ==
    { [name |-> n, artist_names |-> a] : n \in TrackNames, a \in ArtistLists }

\* Six search results that, for the target ("A b", "p q"), score 6, 6, 4, 2,
\* 1 and 0: "a b" by "p q"; "A B c" by "p q"; "a b" by "P" and "p q";
\* "b" by "P"; "b" by "r"; "c" by "r".
Catalogue ==
    { [name |-> <<"a", " ", "b">>, artist_names |-> << <<"p", " ", "q">> >>],
      [name |-> <<"A", " ", "B", " ", "c">>, artist_names |-> << <<"p", " ", "q">> >>],
      [name |-> <<"a", " ", "b">>, artist_names |-> << <<"P">>, <<"p", " ", "q">> >>],
      [name |-> <<"b">>, artist_names |-> << <<"P">> >>],
      [name |-> <<"b">>, artist_names |-> << <<"r">> >>],
      [name |-> <<"c">>, artist_names |-> << <<"r">> >>] }

\* The lists search_track can hand to the matcher: none to MaxTracks results.
SearchResults ==
    UNION { [1..n -> Catalogue] : n \in 0..MaxTracks }

(***************************************************************************)
(* The state machine of one invocation.                                    *)
(***************************************************************************)
\* No invocation of search_tracks_batch.
IdleBatch ==
    [pc |-> "idle", cls |-> "web", songs_and_artists |-> <<>>, i |-> 1,
     all_tracks |-> <<>>, origin |-> <<>>, exc |-> "none"]

\* No invocation of add_tracks_to_playlist.
IdleAdd ==
    [pc |-> "idle", cls |-> "token", playlist_id |-> "", track_uris |-> <<>>,
     i |-> 0, bound |-> FALSE, result |-> FALSE, exc |-> "none"]

\* No invocation of create_playlist_from_songs.
IdleFlow ==
    [pc |-> "idle", cls |-> "token", songs_and_artists |-> <<>>, user_id |-> "",
     track_uris |-> <<>>, playlist_id |-> "", result |-> [t |-> "null"],
     exc |-> "none", report |-> [t |-> "null"]]

\* No invocation of a request method.
IdleCall == [pc |-> "idle"]

\* No SpotifyPlaylistManager under construction.
IdleManager == [pc |-> "idle"]

\* Nothing sent, no caller running.
CallersIdle ==
    /\ sent = <<>>
    /\ batch = IdleBatch
    /\ add = IdleAdd
    /\ flow = IdleFlow
    /\ call = IdleCall
    /\ manager = IdleManager

\* A frame with no invocation in it.
IdleFrame ==
    [pc |-> "idle", target_song |-> <<>>, target_artist |-> <<>>, tracks |-> <<>>,
     i |-> 1, score |-> 0, best_score |-> 0, best_track |-> NoTrack,
     result |-> NoTrack]

\* Entry without lines 182-183: the best track and score of the frame's
\* previous invocation are still there, as attributes kept between calls
\* would be.
Entry_keepsBest(old, target_song, target_artist, tracks) ==
    [pc |-> IF tracks = <<>> THEN "return" ELSE "song",
     target_song |-> target_song, target_artist |-> target_artist,
     tracks |-> tracks, i |-> 1, score |-> 0,
     best_score |-> old.best_score, best_track |-> old.best_track,
     result |-> NoTrack]

\* Lines 176-185: the frame on entry, at the head of the loop.
Entry(old, target_song, target_artist, tracks) ==
    [pc |-> IF tracks = <<>> THEN "return" ELSE "song",
     target_song |-> target_song, target_artist |-> target_artist,
     tracks |-> tracks, i |-> 1, score |-> 0,
     best_score |-> 0, best_track |-> NoTrack, result |-> NoTrack]

\* Lines 16-25: the scraper object the matcher is a method of.
NewScraper ==
    [graphql_url |-> "https://api-partner.spotify.com/pathfinder/v1/query",
     session |-> "requests.Session"]

\* CheckSong without line 186: the score of the previous track is added to.
CheckSong_noReset(f) ==
    /\ frame[f].pc = "song"
    /\ frame' = [frame EXCEPT ![f].score =
                    frame[f].score
                    + SongScore(frame[f].target_song, frame[f].tracks[frame[f].i]),
                              ![f].pc = "artist"]
    /\ UNCHANGED <<scraper, callers>>

\* Lines 186-192: score = 0, then the song name similarity.
CheckSong(f) ==
    /\ frame[f].pc = "song"
    /\ frame' = [frame EXCEPT ![f].score =
                    0 + SongScore(frame[f].target_song, frame[f].tracks[frame[f].i]),
                              ![f].pc = "artist"]
    /\ UNCHANGED <<scraper, callers>>

\* Lines 194-201: the artist name similarity.
CheckArtist(f) ==
    /\ frame[f].pc = "artist"
    /\ frame' = [frame EXCEPT ![f].score =
                    frame[f].score
                    + ArtistScore(frame[f].target_artist,
                                  frame[f].tracks[frame[f].i].artist_names),
                              ![f].pc = "update"]
    /\ UNCHANGED <<scraper, callers>>

\* UpdateBest without the loop's advance: the same track is scored again.
UpdateBest_noAdvance(f) ==
    /\ frame[f].pc = "update"
    /\ LET better == BetterThan(frame[f].score, frame[f].best_score)
       IN  frame' = [frame EXCEPT
                ![f].best_score = IF better THEN frame[f].score ELSE @,
                ![f].best_track = IF better THEN frame[f].i ELSE @,
                ![f].pc = IF frame[f].i + 1 <= Len(frame[f].tracks)
                          THEN "song" ELSE "return"]
    /\ UNCHANGED <<scraper, callers>>

\* Lines 203-205 and the loop's advance to the next track.
UpdateBest(f) ==
    /\ frame[f].pc = "update"
    /\ LET better == BetterThan(frame[f].score, frame[f].best_score)
       IN  frame' = [frame EXCEPT
                ![f].best_score = IF better THEN frame[f].score ELSE @,
                ![f].best_track = IF better THEN frame[f].i ELSE @,
                ![f].i = @ + 1,
                ![f].pc = IF frame[f].i + 1 <= Len(frame[f].tracks)
                          THEN "song" ELSE "return"]
    /\ UNCHANGED <<scraper, callers>>

\* Line 208.
Return(f) ==
    /\ frame[f].pc = "return"
    /\ frame' = [frame EXCEPT
            ![f].result = ReturnValue(frame[f].best_track, frame[f].best_score),
            ![f].pc = "done"]
    /\ UNCHANGED <<scraper, callers>>

\* One step of some invocation.
Next ==
    \E f \in Frames : CheckSong(f) \/ CheckArtist(f) \/ UpdateBest(f) \/ Return(f)

\* One invocation, on any target and any list of search results.
Init ==
    /\ scraper = NewScraper
    /\ CallersIdle
    /\ \E s \in Songs, a \in TargetArtists, t \in SearchResults :
          frame = [f \in Frames |->
                      IF f = 1 THEN Entry(IdleFrame, s, a, t) ELSE IdleFrame]

Spec == Init /\ [][Next]_vars

\* The same invocation under a scheduler that runs a statement whenever one
\* is ready to run: the interpreter does not stop in the middle of a call.
SpecLive == Init /\ [][Next]_vars /\ WF_vars(Next)

\* One invocation, on any target and on one track of any name and artists.
InitScore ==
    /\ scraper = NewScraper
    /\ CallersIdle
    /\ \E s \in Songs, a \in TargetArtists, c \in Candidates :
          frame = [f \in Frames |->
                      IF f = 1 THEN Entry(IdleFrame, s, a, <<c>>) ELSE IdleFrame]

SpecScore == InitScore /\ [][Next]_vars

\* The targets and search results of the invocations of a batch: the targets
\* ("A b", "p q") and ("", "r"); the results ["b" by "P", "a b" by "p q"],
\* ["b" by "r"] and ["A B c" by "p q", "a b" by "p q"].
BatchTargets ==
    { [song |-> <<"A", " ", "b">>, artist |-> <<"p", " ", "q">>],
      [song |-> <<>>, artist |-> <<"r">>] }

BatchResults ==
    { << [name |-> <<"b">>, artist_names |-> << <<"P">> >>],
         [name |-> <<"a", " ", "b">>, artist_names |-> << <<"p", " ", "q">> >>] >>,
      << [name |-> <<"b">>, artist_names |-> << <<"r">> >>] >>,
      << [name |-> <<"A", " ", "B", " ", "c">>, artist_names |-> << <<"p", " ", "q">> >>],
         [name |-> <<"a", " ", "b">>, artist_names |-> << <<"p", " ", "q">> >>] >> }

\* Line 161: the caller of frame f, idle or back from a call, calls the
\* matcher with the next target and its search results.
Call(f) ==
    /\ frame[f].pc \in {"idle", "done"}
    /\ \E t \in BatchTargets, r \in BatchResults :
          frame' = [frame EXCEPT ![f] = Entry(frame[f], t.song, t.artist, r)]
    /\ UNCHANGED <<scraper, callers>>

\* Invocations one after another in each frame, the frames interleaved.
NextCalls ==
    \E f \in Frames :
        Call(f) \/ CheckSong(f) \/ CheckArtist(f) \/ UpdateBest(f) \/ Return(f)

InitCalls ==
    /\ scraper = NewScraper
    /\ CallersIdle
    /\ frame = [f \in Frames |-> IdleFrame]

SpecCalls == InitCalls /\ [][NextCalls]_vars

\* The strings of the two worked examples: "Bailando", "Paradisio",
\* "Bailando (Remix)", "DJ X", "Unknown Song", "Unknown Artist",
\* "Totally Different", "Nobody".
Bailando ==
    <<"B", "a", "i", "l", "a", "n", "d", "o">>

Paradisio ==
    <<"P", "a", "r", "a", "d", "i", "s", "i", "o">>

BailandoRemix ==
    <<"B", "a", "i", "l", "a", "n", "d", "o", " ", "(", "R", "e",
      "m", "i", "x", ")">>

DJX ==
    <<"D", "J", " ", "X">>

UnknownSong ==
    <<"U", "n", "k", "n", "o", "w", "n", " ", "S", "o", "n", "g">>

UnknownArtist ==
    <<"U", "n", "k", "n", "o", "w", "n", " ", "A", "r", "t", "i",
      "s", "t">>

TotallyDifferent ==
    <<"T", "o", "t", "a", "l", "l", "y", " ", "D", "i", "f", "f",
      "e", "r", "e", "n", "t">>

Nobody ==
    <<"N", "o", "b", "o", "d", "y">>

\* The worked examples: a target and the search results it is matched with.
BailandoExample ==
    [song |-> Bailando, artist |-> Paradisio,
     tracks |-> << [name |-> Bailando, artist_names |-> <<Paradisio>>],
                   [name |-> BailandoRemix, artist_names |-> <<DJX>>] >>]

UnknownExample ==
    [song |-> UnknownSong, artist |-> UnknownArtist,
     tracks |-> << [name |-> TotallyDifferent, artist_names |-> <<Nobody>>] >>]

Examples == {BailandoExample, UnknownExample}

\* Line 161: the caller of frame f calls the matcher on a worked example.
CallExample(f) ==
    /\ frame[f].pc \in {"idle", "done"}
    /\ \E e \in Examples :
          frame' = [frame EXCEPT ![f] = Entry(frame[f], e.song, e.artist, e.tracks)]
    /\ UNCHANGED <<scraper, callers>>

NextExamples ==
    \E f \in Frames :
        CallExample(f) \/ CheckSong(f) \/ CheckArtist(f) \/ UpdateBest(f) \/ Return(f)

\* The worked examples, one after another in each frame, the frames
\* interleaved.
SpecExamples == InitCalls /\ [][NextExamples]_vars

(***************************************************************************)
(* The search request: SpotifyWebScraper.search_track (27-91),             *)
(* SpotifyTokenScraper.search_track (39-105) and _extract_track_info.      *)
(*                                                                         *)
(* A decoded JSON value is tagged with its Python type: a dict holds a     *)
(* record of its members, a list a sequence; JSON strings are the strings  *)
(* of the model.  What a call does is [exc, value]: the exception it       *)
(* raises ("none" when it returns) and the value it returns.               *)
(***************************************************************************)
JNull == [t |-> "null"]

JDict(members) == [t |-> "dict", v |-> members]

JList(elements) == [t |-> "list", v |-> elements]

\* A string that is kept as one name, not as its characters: an id.
JStr(name) == [t |-> "str", v |-> name]

\* A dict without members.
JEmpty == JDict(<<>>)

Returns(value) == [exc |-> "none", value |-> value]

Raises(exception) == [exc |-> exception, value |-> <<>>]

\* `key in x` is defined on a dict (its keys) and on a list (its elements,
\* none of which is a string here); on None it raises TypeError.
CanContain(x) == x.t \in {"dict", "list"}

In(key, x) == x.t = "dict" /\ key \in DOMAIN x.v

\* The truth value of a value: None, {}, [] and '' are false.
Truthy(x) ==
    CASE x.t = "null" -> FALSE
      [] x.t = "dict" -> DOMAIN x.v # {}
      [] x.t = "list" -> x.v # <<>>
      [] x.t = "str" -> x.v # ""
      [] x.t = "int" -> x.v # 0
      [] OTHER -> TRUE

\* The defaults of lines 97, 98 and 111: 'Unknown', '' and 'Unknown Artist'.
DefaultName ==
    <<"U", "n", "k", "n", "o", "w", "n">>

DefaultUri == <<>>

DefaultArtistName ==
    <<"U", "n", "k", "n", "o", "w", "n", " ", "A", "r", "t", "i", "s", "t">>

\* Line 111: artist.get('profile', {}).get('name', 'Unknown Artist') raises
\* AttributeError unless artist and its profile are dicts.
ArtistRaises(artist) ==
    \/ artist.t # "dict"
    \/ "profile" \in DOMAIN artist.v /\ artist.v.profile.t # "dict"

ArtistName(artist) ==
    IF "profile" \in DOMAIN artist.v /\ "name" \in DOMAIN artist.v.profile.v
    THEN artist.v.profile.v.name
    ELSE DefaultArtistName

\* Lines 108-109: the artists are read when track_data has 'artists' with
\* 'items' in it.
HasArtists(track_data) ==
    /\ "artists" \in DOMAIN track_data.v
    /\ In("items", track_data.v.artists)

\* Lines 96-133 raise: track_data is no dict; `'items' in` is applied to
\* None; the artists' items are no list of dicts with dict profiles; the
\* album is no dict.
ExtractRaises(track_data) ==
    \/ track_data.t # "dict"
    \/ /\ "artists" \in DOMAIN track_data.v
       /\ ~CanContain(track_data.v.artists)
    \/ /\ HasArtists(track_data)
       /\ \/ track_data.v.artists.v.items.t = "null"
          \/ /\ track_data.v.artists.v.items.t = "dict"
             /\ DOMAIN track_data.v.artists.v.items.v # {}
          \/ /\ track_data.v.artists.v.items.t = "list"
             /\ \E k \in 1..Len(track_data.v.artists.v.items.v) :
                   ArtistRaises(track_data.v.artists.v.items.v[k])
    \/ /\ "albumOfTrack" \in DOMAIN track_data.v
       /\ track_data.v.albumOfTrack.t # "dict"

\* Lines 93-137: the track_info of track_data, as the list of the one value
\* returned, or the empty list for None (the except clause of line 135).  Of
\* the members of track_info the name, the uri and the artist names are kept.
ExtractTrackInfo(track_data) ==
    IF ExtractRaises(track_data)
    THEN <<>>
    ELSE << [name |-> IF "name" \in DOMAIN track_data.v
                      THEN track_data.v.name ELSE DefaultName,
             uri |-> IF "uri" \in DOMAIN track_data.v
                     THEN track_data.v.uri ELSE DefaultUri,
             artist_names |->
                 IF HasArtists(track_data) /\ track_data.v.artists.v.items.t = "list"
                 THEN [k \in 1..Len(track_data.v.artists.v.items.v) |->
                          ArtistName(track_data.v.artists.v.items.v[k])]
                 ELSE <<>>] >>

RECURSIVE ExtractItems(_)
\* Lines 74-79: the loop over the items; an item without 'item' and a track
\* whose extraction returned None are left out.  [exc, value] as for a call:
\* `'item' in item` raises TypeError on an item that is None.
ExtractItems(items) ==
    IF items = <<>>
    THEN Returns(<<>>)
    ELSE IF ~CanContain(Head(items))
         THEN Raises("TypeError")
         ELSE LET rest == ExtractItems(Tail(items))
                  info == IF In("item", Head(items))
                          THEN ExtractTrackInfo(Head(items).v.item)
                          ELSE <<>>
              IN  IF rest.exc # "none" THEN rest ELSE Returns(info \o rest.value)

\* Lines 67-84: what search_track makes of the decoded body.
ParseSearch(data) ==
    IF ~CanContain(data)
    THEN Raises("TypeError")
    ELSE IF ~In("data", data)
    THEN Returns(<<>>)
    ELSE IF ~CanContain(data.v.data)
    THEN Raises("TypeError")
    ELSE IF ~In("searchV2", data.v.data)
    THEN Returns(<<>>)
    ELSE IF ~CanContain(data.v.data.v.searchV2)
    THEN Raises("TypeError")
    ELSE IF ~In("tracksV2", data.v.data.v.searchV2)
    THEN Returns(<<>>)
    ELSE IF data.v.data.v.searchV2.v.tracksV2.t # "dict"
    THEN Raises("TypeError")
    ELSE IF "items" \notin DOMAIN data.v.data.v.searchV2.v.tracksV2.v
    THEN Raises("KeyError")
    ELSE IF ~Truthy(data.v.data.v.searchV2.v.tracksV2.v.items)
    THEN Returns(<<>>)
    ELSE IF data.v.data.v.searchV2.v.tracksV2.v.items.t # "list"
    THEN Raises("TypeError")
    ELSE ExtractItems(data.v.data.v.searchV2.v.tracksV2.v.items.v)

\* What session.post or session.get comes to: no response at all (the
\* request raised ConnectionError or Timeout, both RequestException), or a
\* response with its status code and body.
NoResponse(exception) == [kind |-> "no_response", exception |-> exception]

Response(status_code, body) ==
    [kind |-> "response", status_code |-> status_code, body |-> body]

\* A body that is not JSON: response.json() raises JSONDecodeError.
Undecodable == [t |-> "undecodable"]

\* response.raise_for_status() raises HTTPError on a 4xx or 5xx status.
RaiseForStatus(response) == response.status_code >= 400

\* Web scraper, lines 61-91: every RequestException and JSONDecodeError is
\* caught and [] returned.
WebSearchTrack(outcome) ==
    IF outcome.kind = "no_response"
    THEN Returns(<<>>)
    ELSE IF RaiseForStatus(outcome)
    THEN Returns(<<>>)
    ELSE IF outcome.body.t = "undecodable"
    THEN Returns(<<>>)
    ELSE ParseSearch(outcome.body)

\* Token scraper, lines 73-105: the same, but the handler of
\* RequestException reads response.status_code (line 98), and `response` is
\* not bound when session.post itself raised.
TokenSearchTrack(outcome) ==
    IF outcome.kind = "no_response"
    THEN Raises("UnboundLocalError")
    ELSE IF RaiseForStatus(outcome)
    THEN Returns(<<>>)
    ELSE IF outcome.body.t = "undecodable"
    THEN Returns(<<>>)
    ELSE ParseSearch(outcome.body)

\* search_track of the scraper class cls.
SearchTrack(cls, outcome) ==
    IF cls = "web" THEN WebSearchTrack(outcome) ELSE TokenSearchTrack(outcome)

(***************************************************************************)
(* search_tracks_batch: web scraper 139-174, token scraper 352-387 (the    *)
(* same statements; all_tracks is called found_tracks there).              *)
(***************************************************************************)
MaxTargets == 2

\* The scraper classes.
Classes == {"web", "token"}

\* The songs_and_artists lists of the batch: none to MaxTargets targets.
TargetLists ==
    UNION { [1..n -> BatchTargets] : n \in 0..MaxTargets }

\* The JSON of a search response with the given tracksV2 items, of an item
\* with its track, and of a track with its name, uri and artists.
SearchBody(items) ==
    JDict([data |-> JDict([searchV2 |->
             JDict([tracksV2 |-> JDict([items |-> JList(items)])])])])

Item(track_data) == JDict([item |-> track_data])

Artists(names) ==
    JDict([items |-> JList([k \in 1..Len(names) |->
                               JDict([profile |-> JDict([name |-> names[k]])])])])

TrackData(name, uri, names) ==
    JDict([name |-> name, uri |-> uri, artists |-> Artists(names)])

\* A track without an 'artists' member.
TrackDataNoArtists(name, uri) == JDict([name |-> name, uri |-> uri])

\* What a search of the batch can come to: no response; status 401; a body
\* with data null; no items; "b" by "P" and "a b" by "p q"; "c" by "r";
\* "a b" without artists.
BatchOutcomes ==
    { NoResponse("ConnectionError"),
      Response(401, Undecodable),
      Response(200, JDict([data |-> JNull])),
      Response(200, SearchBody(<<>>)),
      Response(200, SearchBody(<<
          Item(TrackData(<<"b">>, <<"u", "1">>, << <<"P">> >>)),
          Item(TrackData(<<"a", " ", "b">>, <<"u", "2">>, << <<"p", " ", "q">> >>)) >>)),
      Response(200, SearchBody(<<
          Item(TrackData(<<"c">>, <<"u", "3">>, << <<"r">> >>)) >>)),
      Response(200, SearchBody(<<
          Item(TrackDataNoArtists(<<"a", " ", "b">>, <<"u", "4">>)) >>)) }

\* Lines 149-153: the batch on entry, at the head of the loop.
BatchEntry(cls, songs_and_artists) ==
    [pc |-> "loop", cls |-> cls, songs_and_artists |-> songs_and_artists, i |-> 1,
     all_tracks |-> <<>>, origin |-> <<>>, exc |-> "none"]

\* SearchTerm with the two names in the order of the tuple: song, artist.
SearchTerm_songFirst(song, artist) == song \o <<" ">> \o artist

\* Line 154: search_term = f"{artist} {song}".
SearchTerm(song, artist) == artist \o <<" ">> \o song

\* Lines 157 and 27-91: the search request of target i, as it is logged.
SearchRequest(song, artist, outcome) ==
    [op |-> "search", search_term |-> SearchTerm(song, artist), limit |-> 3,
     outcome |-> outcome]

\* Lines 159-168 on the tracks of a search that returned: the batch after
\* them.  A match is appended (line 163) before line 164 prints its first
\* artist name, which raises IndexError when it has none.
AfterSearch(b, tracks) ==
    LET song   == b.songs_and_artists[b.i].song
        artist == b.songs_and_artists[b.i].artist
        best   == IF tracks # <<>> THEN FindBestMatch(song, artist, tracks) ELSE NoTrack
    IN  IF best = NoTrack
        THEN [b EXCEPT !.i = @ + 1]
        ELSE IF tracks[best].artist_names = <<>>
             THEN [b EXCEPT !.all_tracks = Append(@, tracks[best]),
                            !.origin = Append(@, b.i),
                            !.pc = "raised", !.exc = "IndexError"]
             ELSE [b EXCEPT !.all_tracks = Append(@, tracks[best]),
                            !.origin = Append(@, b.i),
                            !.i = @ + 1]

\* Lines 153-171: one turn of the loop, for target i: the search request
\* with whatever comes of it, the matcher on its tracks, the append.  An
\* exception search_track raises leaves the batch.
SearchNext ==
    /\ batch.pc = "loop"
    /\ batch.cls \in Classes
    /\ batch.i <= Len(batch.songs_and_artists)
    /\ \E outcome \in BatchOutcomes :
          LET song   == batch.songs_and_artists[batch.i].song
              artist == batch.songs_and_artists[batch.i].artist
              r      == SearchTrack(batch.cls, outcome)
          IN  /\ sent' = Append(sent, SearchRequest(song, artist, outcome))
              /\ batch' = IF r.exc # "none"
                          THEN [batch EXCEPT !.pc = "raised", !.exc = r.exc]
                          ELSE AfterSearch(batch, r.value)
    /\ UNCHANGED <<frame, scraper, add, flow, call, manager>>

\* Lines 173-174: the loop is over, all_tracks is returned.
BatchReturn ==
    /\ batch.pc = "loop"
    /\ batch.i > Len(batch.songs_and_artists)
    /\ batch' = [batch EXCEPT !.pc = "done"]
    /\ UNCHANGED <<frame, scraper, sent, add, flow, call, manager>>

NextBatch == SearchNext \/ BatchReturn

\* One invocation of search_tracks_batch, of either scraper, on any list of
\* targets.
InitBatch ==
    /\ scraper = NewScraper
    /\ frame = [f \in Frames |-> IdleFrame]
    /\ sent = <<>>
    /\ add = IdleAdd
    /\ flow = IdleFlow
    /\ call = IdleCall
    /\ manager = IdleManager
    /\ \E cls \in Classes, sa \in TargetLists : batch = BatchEntry(cls, sa)

SpecBatch == InitBatch /\ [][NextBatch]_vars

(***************************************************************************)
(* add_tracks_to_playlist: token scraper 240-277, playlist manager         *)
(* 100-122.                                                                *)
(***************************************************************************)
\* Lines 257 and 116: batch_size = 100.
batch_size == 100

\* The lists of the model have up to MaxBatches batches.
MaxBatches == 3

\* The lengths of the lists of track URIs: none, one, and a URI less than,
\* exactly and a URI more than a whole number of batches.
UriCounts ==
    {0, 1} \cup { k * batch_size + d : k \in 1..(MaxBatches - 1), d \in {-1, 0, 1} }

\* A list of n track URIs, all different: the URI at position k is k.
Uris(n) == [k \in 1..n |-> k]

\* The classes with an add_tracks_to_playlist.
AddClasses == {"token", "manager"}

\* What the request of a batch can come to: no response, 201 Created, or an
\* error status.
AddOutcomes ==
    { NoResponse("ConnectionError"), Response(201, JEmpty), Response(401, JEmpty),
      Response(403, JEmpty), Response(500, JEmpty) }

\* The request succeeded: a response, and raise_for_status does not raise.
Succeeded(outcome) == outcome.kind = "response" /\ ~RaiseForStatus(outcome)

\* Lines 251-258: the invocation on entry; an empty list returns False at
\* once.
AddEntry(cls, playlist_id, track_uris) ==
    [pc |-> IF track_uris = <<>> THEN "done" ELSE "loop", cls |-> cls,
     playlist_id |-> playlist_id, track_uris |-> track_uris, i |-> 0,
     bound |-> FALSE, result |-> FALSE, exc |-> "none"]

\* BatchOf with the slice one element short.
BatchOf_dropsLast(track_uris, i) ==
    SubSeq(track_uris, i + 1,
           IF i + batch_size - 1 <= Len(track_uris)
           THEN i + batch_size - 1 ELSE Len(track_uris))

\* Line 259: batch = track_uris[i:i + batch_size].
BatchOf(track_uris, i) ==
    SubSeq(track_uris, i + 1,
           IF i + batch_size <= Len(track_uris) THEN i + batch_size ELSE Len(track_uris))

\* Lines 261-264: the request of a batch, as it is logged.
AddRequest(playlist_id, uris, outcome) ==
    [op |-> "add", playlist_id |-> playlist_id, uris |-> uris, outcome |-> outcome]

\* Lines 261-277, the invocation after the request of a batch.  In the token
\* scraper a failed request ends in the handler of line 270, which reads
\* response.status_code: `response` is the failed response, or the response
\* of the batch before when this request got none, or not bound at all
\* (UnboundLocalError).  The playlist manager (line 119) has no handler: what
\* spotipy raises leaves the method.
AfterAdd(a, outcome) ==
    IF Succeeded(outcome)
    THEN [a EXCEPT !.i = @ + batch_size, !.bound = TRUE]
    ELSE IF a.cls = "manager"
    THEN [a EXCEPT !.pc = "raised",
                   !.exc = IF outcome.kind = "no_response"
                           THEN outcome.exception ELSE "SpotifyException"]
    ELSE IF outcome.kind = "no_response" /\ ~a.bound
    THEN [a EXCEPT !.pc = "raised", !.exc = "UnboundLocalError"]
    ELSE [a EXCEPT !.pc = "done", !.result = FALSE, !.bound = TRUE]

\* Lines 258-265: one turn of the loop, the request of the batch at i.
AddBatch ==
    /\ add.pc = "loop"
    /\ add.i < Len(add.track_uris)
    /\ \E outcome \in AddOutcomes :
          /\ sent' = Append(sent, AddRequest(add.playlist_id,
                                             BatchOf(add.track_uris, add.i), outcome))
          /\ add' = AfterAdd(add, outcome)
    /\ UNCHANGED <<frame, scraper, batch, flow, call, manager>>

\* Lines 267-268: the loop is over, True is returned.
AddReturn ==
    /\ add.pc = "loop"
    /\ add.i >= Len(add.track_uris)
    /\ add' = [add EXCEPT !.pc = "done", !.result = TRUE]
    /\ UNCHANGED <<frame, scraper, sent, batch, flow, call, manager>>

NextAdd == AddBatch \/ AddReturn

\* One invocation of add_tracks_to_playlist, of either class, on a list of
\* any of the lengths above.
InitAdd ==
    /\ scraper = NewScraper
    /\ frame = [f \in Frames |-> IdleFrame]
    /\ sent = <<>>
    /\ batch = IdleBatch
    /\ flow = IdleFlow
    /\ call = IdleCall
    /\ manager = IdleManager
    /\ \E cls \in AddClasses, n \in UriCounts : add = AddEntry(cls, "p1", Uris(n))

SpecAdd == InitAdd /\ [][NextAdd]_vars

(***************************************************************************)
(* The methods that send one request: search_track of both scrapers, and   *)
(* get_user_playlists (107-145), get_playlist_tracks (147-195),            *)
(* create_playlist (197-238) and get_current_user (279-292) of the token   *)
(* scraper.  A value a method returns is tagged like a decoded value: None *)
(* is JNull, a list a JList; a playlist id is a name.                      *)
(***************************************************************************)
MaxItems == 2

\* The handler of RequestException of lines 140-145, 190-195, 231-238 and
\* 287-292 reads response.status_code before it returns the failure value:
\* when the request got no response, `response` is not bound.
HandleRequestException(outcome, failure) ==
    IF outcome.kind = "no_response" THEN Raises("UnboundLocalError") ELSE Returns(failure)

RECURSIVE PlaylistIds(_)
\* Lines 124-136: the playlists of the items; of a playlist_info its id is
\* kept.  item.get('id') is None without the member.
PlaylistIds(items) ==
    IF items = <<>>
    THEN <<>>
    ELSE << IF "id" \in DOMAIN Head(items).v THEN Head(items).v.id ELSE JNull >>
         \o PlaylistIds(Tail(items))

RECURSIVE TrackUris(_)
\* Lines 166-186: the tracks of the items that have one; of a track_info its
\* uri is kept.
TrackUris(items) ==
    IF items = <<>>
    THEN <<>>
    ELSE (IF "track" \in DOMAIN Head(items).v /\ Truthy(Head(items).v.track)
          THEN << IF "uri" \in DOMAIN Head(items).v.track.v
                  THEN Head(items).v.track.v.uri ELSE JNull >>
          ELSE <<>>)
         \o TrackUris(Tail(items))

\* data.get('items', []) of a decoded dict.
ItemsOf(data) == IF "items" \in DOMAIN data.v THEN data.v.items.v ELSE <<>>

\* Lines 117-145.  requests raises its JSONDecodeError, a RequestException,
\* from response.json().
GetUserPlaylists(outcome) ==
    IF outcome.kind = "no_response" \/ RaiseForStatus(outcome)
       \/ outcome.body.t = "undecodable"
    THEN HandleRequestException(outcome, JList(<<>>))
    ELSE IF outcome.body.t # "dict"
    THEN Raises("AttributeError")
    ELSE Returns(JList(PlaylistIds(ItemsOf(outcome.body))))

\* Lines 158-195.
GetPlaylistTracks(outcome) ==
    IF outcome.kind = "no_response" \/ RaiseForStatus(outcome)
       \/ outcome.body.t = "undecodable"
    THEN HandleRequestException(outcome, JList(<<>>))
    ELSE IF outcome.body.t # "dict"
    THEN Raises("AttributeError")
    ELSE Returns(JList(TrackUris(ItemsOf(outcome.body))))

\* Lines 216-238: the id of the playlist created, None when the response
\* has none.
CreatePlaylist(outcome) ==
    IF outcome.kind = "no_response" \/ RaiseForStatus(outcome)
       \/ outcome.body.t = "undecodable"
    THEN HandleRequestException(outcome, JNull)
    ELSE IF outcome.body.t # "dict"
    THEN Raises("AttributeError")
    ELSE IF "id" \in DOMAIN outcome.body.v /\ outcome.body.v.id # ""
    THEN Returns(JStr(outcome.body.v.id))
    ELSE Returns(JNull)

\* Lines 281-292: the decoded body, whatever it is.
GetCurrentUser(outcome) ==
    IF outcome.kind = "no_response" \/ RaiseForStatus(outcome)
       \/ outcome.body.t = "undecodable"
    THEN HandleRequestException(outcome, JNull)
    ELSE Returns(outcome.body)

\* search_track with its list tagged.
SearchTrackValue(cls, outcome) ==
    LET r == SearchTrack(cls, outcome)
    IN  IF r.exc = "none" THEN Returns(JList(r.value)) ELSE r

\* The methods of the token scraper that send one request.
TokenMethods ==
    {"search_track", "get_user_playlists", "get_playlist_tracks", "create_playlist",
     "get_current_user"}

\* What the method comes to on the outcome of its request.
Request(cls, method, outcome) ==
    CASE method = "search_track" -> SearchTrackValue(cls, outcome)
      [] method = "get_user_playlists" -> GetUserPlaylists(outcome)
      [] method = "get_playlist_tracks" -> GetPlaylistTracks(outcome)
      [] method = "create_playlist" -> CreatePlaylist(outcome)
      [] method = "get_current_user" -> GetCurrentUser(outcome)

\* The requests that fail: without a response, or with an error status.
FailedOutcomes ==
    { NoResponse("ConnectionError"), NoResponse("Timeout") }
    \cup { Response(status, JEmpty) : status \in {401, 403, 404, 500} }

\* The tracksV2 items of a search response: a track with its artists, a
\* track without artists, an item without 'item', an item whose 'item' is
\* null, a null item, and a track whose members are under 'data'.
ItemPool ==
    { Item(TrackData(<<"a", " ", "b">>, <<"u", "2">>, << <<"p", " ", "q">>, <<"r">> >>)),
      Item(TrackDataNoArtists(<<"c">>, <<"u", "4">>)),
      JEmpty,
      Item(JNull),
      JNull,
      Item(JDict([data |-> TrackData(<<"b">>, <<"u", "1">>, << <<"P">> >>)])) }

\* The decoded bodies of a search response: the documented shape with none
\* to MaxItems items, and the shapes short of it.
SearchBodies ==
    { SearchBody(items) : items \in UNION { [1..n -> ItemPool] : n \in 0..MaxItems } }
    \cup { JNull, JList(<<>>), JEmpty,
           JDict([data |-> JNull]),
           JDict([data |-> JEmpty]),
           JDict([data |-> JDict([searchV2 |-> JNull])]),
           JDict([data |-> JDict([searchV2 |-> JEmpty])]),
           JDict([data |-> JDict([searchV2 |-> JDict([tracksV2 |-> JNull])])]),
           JDict([data |-> JDict([searchV2 |-> JDict([tracksV2 |-> JEmpty])])]),
           JDict([data |-> JDict([searchV2 |->
                    JDict([tracksV2 |-> JDict([items |-> JNull])])])]) }

\* The bodies of the answers to the other requests: playlists, playlist
\* tracks, a created playlist with and without id, a user with and without
\* id, and an empty object.
OtherBodies ==
    { JEmpty,
      JDict([id |-> "p1"]),
      JDict([id |-> ""]),
      JDict([items |-> JList(<< JDict([id |-> "p1"]), JEmpty >>)]),
      JDict([items |-> JList(<< JDict([track |-> JDict([uri |-> <<"u", "1">>])]),
                               JDict([track |-> JNull]) >>)]) }

\* What the request of a method can come to.
Outcomes(method) ==
    FailedOutcomes
    \cup { Response(200, Undecodable) }
    \cup { Response(200, body) :
             body \in IF method = "search_track" THEN SearchBodies ELSE OtherBodies }

\* A method called, its request not yet sent.
CallEntry(cls, method) ==
    [pc |-> "request", cls |-> cls, method |-> method,
     outcome |-> [kind |-> "none"], exc |-> "none", value |-> JNull]

\* The method sends its request and returns or raises on what comes of it.
SendRequest ==
    /\ call.pc = "request"
    /\ \E outcome \in Outcomes(call.method) :
          LET r == Request(call.cls, call.method, outcome)
          IN  /\ call' = [call EXCEPT !.pc = IF r.exc = "none" THEN "done" ELSE "raised",
                                      !.outcome = outcome,
                                      !.exc = r.exc, !.value = r.value]
              /\ sent' = Append(sent, [op |-> call.method, outcome |-> outcome])
    /\ UNCHANGED <<frame, scraper, batch, add, flow, manager>>

NextRequests == SendRequest \/ AddBatch \/ AddReturn

\* One invocation of search_track of either scraper, of another method of
\* the token scraper that sends a request, or of its add_tracks_to_playlist.
InitRequests ==
    /\ scraper = NewScraper
    /\ frame = [f \in Frames |-> IdleFrame]
    /\ sent = <<>>
    /\ batch = IdleBatch
    /\ flow = IdleFlow
    /\ manager = IdleManager
    /\ \/ /\ add = IdleAdd
          /\ \/ call = CallEntry("web", "search_track")
             \/ \E method \in TokenMethods : call = CallEntry("token", method)
       \/ /\ call = IdleCall
          /\ \E n \in UriCounts : add = AddEntry("token", "p1", Uris(n))

SpecRequests == InitRequests /\ [][NextRequests]_vars

(***************************************************************************)
(* create_playlist_from_songs: token scraper 294-350, playlist manager     *)
(* 124-169, with the playlist manager's search_track (35-55),              *)
(* search_tracks_batch (57-76) and create_playlist (78-98).  The playlist  *)
(* manager sends its requests through spotipy, which raises when a request *)
(* fails; the manager catches nothing.                                     *)
(***************************************************************************)
\* The classes with a create_playlist_from_songs.
FlowClasses == {"token", "manager"}

\* Playlist manager, line 46: query = f"track:{song} artist:{artist}".
ManagerQuery(song, artist) ==
    <<"t", "r", "a", "c", "k", ":">> \o song \o <<" ", "a", "r", "t", "i", "s", "t", ":">> \o artist

\* The body of the answer to the manager's search, with its tracks.
ManagerBody(tracks) == JDict([tracks |-> JDict([items |-> JList(tracks)])])

\* What the manager's search can come to: no response; status 401; no
\* track; the track u1 by "p q"; the track u4 with no artist.
ManagerOutcomes ==
    { NoResponse("ConnectionError"),
      Response(401, JEmpty),
      Response(200, ManagerBody(<<>>)),
      Response(200, ManagerBody(<<
          JDict([name |-> <<"a", " ", "b">>, uri |-> <<"u", "1">>,
                 artists |-> JList(<< JDict([name |-> <<"p", " ", "q">>]) >>)]) >>)),
      Response(200, ManagerBody(<<
          JDict([name |-> <<"a", " ", "b">>, uri |-> <<"u", "4">>,
                 artists |-> JList(<<>>)]) >>)) }

\* Playlist manager, lines 47-55: the URI of the first track found, as the
\* list of the one value returned, or the empty list for None; [exc, value]
\* as for a call.  Line 51 prints the first artist of the track, which raises
\* IndexError when it has none.
ManagerSearchTrack(outcome) ==
    IF outcome.kind = "no_response"
    THEN Raises(outcome.exception)
    ELSE IF RaiseForStatus(outcome)
    THEN Raises("SpotifyException")
    ELSE IF outcome.body.v.tracks.v.items.v = <<>>
    THEN Returns(<<>>)
    ELSE IF Head(outcome.body.v.tracks.v.items.v).v.artists.v = <<>>
    THEN Raises("IndexError")
    ELSE Returns(<< Head(outcome.body.v.tracks.v.items.v).v.uri >>)

\* Playlist manager, lines 70-73: one turn of the loop of its
\* search_tracks_batch, for target i: the search, and the append of a URI
\* that is not empty.
ManagerSearchNext ==
    /\ batch.pc = "loop"
    /\ batch.cls = "manager"
    /\ batch.i <= Len(batch.songs_and_artists)
    /\ \E outcome \in ManagerOutcomes :
          LET song   == batch.songs_and_artists[batch.i].song
              artist == batch.songs_and_artists[batch.i].artist
              r      == ManagerSearchTrack(outcome)
          IN  /\ sent' = Append(sent, [op |-> "search",
                                       search_term |-> ManagerQuery(song, artist),
                                       limit |-> 1, outcome |-> outcome])
              /\ batch' = IF r.exc # "none"
                          THEN [batch EXCEPT !.pc = "raised", !.exc = r.exc]
                          ELSE IF r.value = <<>> \/ r.value[1] = <<>>
                          THEN [batch EXCEPT !.i = @ + 1]
                          ELSE [batch EXCEPT !.all_tracks = Append(@, r.value[1]),
                                             !.origin = Append(@, batch.i),
                                             !.i = @ + 1]
    /\ UNCHANGED <<frame, scraper, add, flow, call, manager>>

\* What the current-user request can come to: no response; status 401; a
\* user with an id, an empty object, a user without id.
UserOutcomes ==
    { NoResponse("ConnectionError"),
      Response(401, JEmpty),
      Response(200, JDict([id |-> "user1"])),
      Response(200, JEmpty),
      Response(200, JDict([display_name |-> "user"])) }

\* What the create-playlist request can come to: no response; status 403;
\* a playlist with an id, an answer without id.
CreateOutcomes ==
    { NoResponse("ConnectionError"),
      Response(403, JEmpty),
      Response(201, JDict([id |-> "p1"])),
      Response(201, JEmpty) }

\* Playlist manager, lines 90-98: playlist['id'] of what spotipy returns.
ManagerCreatePlaylist(outcome) ==
    IF outcome.kind = "no_response"
    THEN Raises(outcome.exception)
    ELSE IF RaiseForStatus(outcome)
    THEN Raises("SpotifyException")
    ELSE IF "id" \notin DOMAIN outcome.body.v
    THEN Raises("KeyError")
    ELSE Returns(JStr(outcome.body.v.id))

\* The invocation on entry: the token scraper begins with the current user
\* (line 314), the playlist manager, whose constructor has stored user_id,
\* with the search (line 144).
FlowEntry(cls, songs_and_artists) ==
    [pc |-> IF cls = "token" THEN "user" ELSE "search", cls |-> cls,
     songs_and_artists |-> songs_and_artists,
     user_id |-> IF cls = "token" THEN "" ELSE "user1",
     track_uris |-> <<>>, playlist_id |-> "", result |-> JNull, exc |-> "none",
     report |-> JNull]

\* The invocation returns result.
FlowReturns(f, result) == [f EXCEPT !.pc = "done", !.result = result]

\* An exception leaves the invocation.
FlowRaises(f, exc) == [f EXCEPT !.pc = "raised", !.exc = exc]

\* Token scraper, lines 314-320: the current user and its id.
FlowGetUser ==
    /\ flow.pc = "user"
    /\ \E outcome \in UserOutcomes :
          LET r == GetCurrentUser(outcome)
          IN  /\ sent' = Append(sent, [op |-> "get_current_user", outcome |-> outcome])
              /\ flow' =
                    IF r.exc # "none"
                    THEN FlowRaises(flow, r.exc)
                    ELSE IF ~Truthy(r.value)
                    THEN FlowReturns(flow,
                            [success |-> FALSE, error |-> "Could not get user info"])
                    ELSE IF "id" \notin DOMAIN r.value.v \/ r.value.v.id = ""
                    THEN FlowReturns(flow,
                            [success |-> FALSE, error |-> "Could not get user ID"])
                    ELSE [flow EXCEPT !.pc = "search", !.user_id = r.value.v.id]
    /\ UNCHANGED <<frame, scraper, batch, add, call, manager>>

\* Line 323 (manager 144): the call of search_tracks_batch.
FlowSearch ==
    /\ flow.pc = "search"
    /\ batch.pc = "idle"
    /\ batch' = BatchEntry(flow.cls, flow.songs_and_artists)
    /\ UNCHANGED <<frame, scraper, sent, add, flow, call, manager>>

\* FlowAfterSearch without lines 325-327: the playlist is created whether
\* tracks were found or not.
FlowAfterSearch_createsAnyway ==
    /\ flow.pc = "search"
    /\ batch.pc \in {"done", "raised"}
    /\ flow' = IF batch.pc = "raised"
               THEN FlowRaises(flow, batch.exc)
               ELSE [flow EXCEPT !.pc = "create", !.track_uris = batch.all_tracks]
    /\ UNCHANGED <<frame, scraper, sent, batch, add, call, manager>>

\* Lines 323-327 (manager 144-148): search_tracks_batch is back; without a
\* track the invocation returns.
FlowAfterSearch ==
    /\ flow.pc = "search"
    /\ batch.pc \in {"done", "raised"}
    /\ flow' = IF batch.pc = "raised"
               THEN FlowRaises(flow, batch.exc)
               ELSE IF batch.all_tracks = <<>>
               THEN FlowReturns(flow,
                        IF flow.cls = "token"
                        THEN [success |-> FALSE, tracks_added |-> 0]
                        ELSE [success |-> FALSE, playlist_id |-> JNull,
                              tracks_added |-> 0])
               ELSE [flow EXCEPT !.pc = "create", !.track_uris = batch.all_tracks]
    /\ UNCHANGED <<frame, scraper, sent, batch, add, call, manager>>

\* UrisOf without the first of the tracks found.
UrisOf_dropsFirst(f) ==
    IF f.cls = "token"
    THEN [k \in 1..(Len(f.track_uris) - 1) |-> f.track_uris[k + 1].uri]
    ELSE Tail(f.track_uris)

\* The URIs handed to add_tracks_to_playlist: line 335 takes t['uri'] of the
\* tracks found; the manager's list holds the URIs already.
UrisOf(f) ==
    IF f.cls = "token"
    THEN [k \in 1..Len(f.track_uris) |-> f.track_uris[k].uri]
    ELSE f.track_uris

\* Lines 330-335 (manager 151-154): the create-playlist request and, with
\* the id of the playlist, the call of add_tracks_to_playlist.
FlowCreate ==
    /\ flow.pc = "create"
    /\ \E outcome \in CreateOutcomes :
          LET r == IF flow.cls = "token"
                   THEN CreatePlaylist(outcome) ELSE ManagerCreatePlaylist(outcome)
          IN  /\ sent' = Append(sent, [op |-> "create_playlist",
                                       user_id |-> flow.user_id, outcome |-> outcome])
              /\ IF r.exc # "none"
                 THEN flow' = FlowRaises(flow, r.exc) /\ UNCHANGED add
                 ELSE IF r.value.t = "null"
                 THEN /\ flow' = FlowReturns(flow,
                            [success |-> FALSE, error |-> "Failed to create playlist"])
                      /\ UNCHANGED add
                 ELSE /\ flow' = [flow EXCEPT !.pc = "add", !.playlist_id = r.value.v]
                      /\ add' = AddEntry(flow.cls, r.value.v, UrisOf(flow))
    /\ UNCHANGED <<frame, scraper, batch, call, manager>>

\* Line 345 (manager 161): f"https://open.spotify.com/playlist/{playlist_id}".
PlaylistUrl(playlist_id) == <<"https://open.spotify.com/playlist/", playlist_id>>

\* Lines 335-350 (manager 154-169): add_tracks_to_playlist is back; the
\* result.
FlowReturn ==
    /\ flow.pc = "add"
    /\ add.pc \in {"done", "raised"}
    /\ flow' = IF add.pc = "raised"
               THEN FlowRaises(flow, add.exc)
               ELSE FlowReturns(flow,
                        [success |-> add.result, playlist_id |-> flow.playlist_id,
                         tracks_found |-> Len(flow.track_uris),
                         tracks_requested |-> Len(flow.songs_and_artists),
                         playlist_url |-> PlaylistUrl(flow.playlist_id)])
    /\ UNCHANGED <<frame, scraper, sent, batch, add, call, manager>>

\* Python's a / b: ZeroDivisionError when b is 0, else the quotient, kept
\* exact as the pair of its numerator and denominator.
Divide(a, b) ==
    IF b = 0 THEN Raises("ZeroDivisionError") ELSE Returns(<<a, b>>)

\* create_eurodance_playlist.py 115-122, run_eurodance_playlist.py 114-123:
\* the caller has the result; when result['success'] is true it computes
\* success_rate = (result['tracks_found'] / result['tracks_requested']) * 100.
MainReport ==
    /\ flow.pc = "done"
    /\ flow' = [flow EXCEPT
                  !.pc = "reported",
                  !.report = IF flow.result.success
                             THEN LET q == Divide(flow.result.tracks_found,
                                                  flow.result.tracks_requested)
                                  IN  IF q.exc # "none" THEN q
                                      ELSE Returns(<<q.value[1] * 100, q.value[2]>>)
                             ELSE JNull]
    /\ UNCHANGED <<frame, scraper, sent, batch, add, call, manager>>

NextFlow ==
    \/ FlowGetUser
    \/ FlowSearch
    \/ SearchNext
    \/ ManagerSearchNext
    \/ BatchReturn
    \/ FlowAfterSearch
    \/ FlowCreate
    \/ AddBatch
    \/ AddReturn
    \/ FlowReturn
    \/ MainReport

\* One invocation of create_playlist_from_songs, of either class, on any
\* list of targets.
InitFlow ==
    /\ scraper = NewScraper
    /\ frame = [f \in Frames |-> IdleFrame]
    /\ sent = <<>>
    /\ batch = IdleBatch
    /\ add = IdleAdd
    /\ call = IdleCall
    /\ manager = IdleManager
    /\ \E cls \in FlowClasses, sa \in TargetLists : flow = FlowEntry(cls, sa)

SpecFlow == InitFlow /\ [][NextFlow]_vars

(***************************************************************************)
(* SpotifyPlaylistManager.__init__ (playlist manager 8-33).  An argument   *)
(* or an environment variable is None (JNull: not given, not set) or a     *)
(* string.                                                                 *)
(***************************************************************************)
\* Python's `a or b`: a when it is true, else b.
Or(a, b) == IF Truthy(a) THEN a ELSE b

\* os.getenv(name, default): the variable, or the default when it is not set.
Getenv(value, default) == IF value.t = "null" THEN default ELSE value

\* The values of a credential, as an argument or in the environment: not
\* there, empty, given.
Credentials == { JNull, JStr(""), JStr("secret") }

\* The values of the redirect URI, as an argument or in the environment.
RedirectUris == { JNull, JStr("http://localhost:9090") }

\* What the current-user request of line 33 can come to.
ManagerUserOutcomes ==
    { NoResponse("ConnectionError"),
      Response(401, JEmpty),
      Response(200, JDict([id |-> "user1"])) }

\* The constructor called: its arguments and the environment it runs in.
ManagerEntry(args, env) ==
    [pc |-> "init", args |-> args, env |-> env,
     client_id |-> JNull, client_secret |-> JNull, redirect_uri |-> JNull,
     sp |-> FALSE, user_id |-> JNull, exc |-> "none"]

\* MissingCredentials testing `is None` for `not`.
MissingCredentials_noneOnly(client_id, client_secret) ==
    client_id.t = "null" \/ client_secret.t = "null"

\* Line 21: not self.client_id or not self.client_secret.
MissingCredentials(client_id, client_secret) ==
    ~Truthy(client_id) \/ ~Truthy(client_secret)

\* Lines 17-22: the three attributes, and ValueError without an id or a
\* secret.
ReadCredentials ==
    /\ manager.pc = "init"
    /\ LET client_id     == Or(manager.args.client_id,
                               Getenv(manager.env.SPOTIFY_CLIENT_ID, JNull))
           client_secret == Or(manager.args.client_secret,
                               Getenv(manager.env.SPOTIFY_CLIENT_SECRET, JNull))
           redirect_uri  == Or(manager.args.redirect_uri,
                               Getenv(manager.env.SPOTIFY_REDIRECT_URI,
                                      JStr("http://localhost:8080")))
       IN  manager' = [manager EXCEPT
               !.client_id = client_id,
               !.client_secret = client_secret,
               !.redirect_uri = redirect_uri,
               !.pc = IF MissingCredentials(client_id, client_secret)
                      THEN "raised" ELSE "client",
               !.exc = IF MissingCredentials(client_id, client_secret)
                       THEN "ValueError" ELSE "none"]
    /\ UNCHANGED <<frame, scraper, sent, batch, add, flow, call>>

\* Lines 24-31: the spotipy client with its SpotifyOAuth manager; nothing is
\* sent yet.
CreateClient ==
    /\ manager.pc = "client"
    /\ manager' = [manager EXCEPT !.sp = TRUE, !.pc = "user"]
    /\ UNCHANGED <<frame, scraper, sent, batch, add, flow, call>>

\* Line 33: self.user_id = self.sp.current_user()['id']; what spotipy raises
\* leaves the constructor.
CurrentUser ==
    /\ manager.pc = "user"
    /\ \E outcome \in ManagerUserOutcomes :
          /\ sent' = Append(sent, [op |-> "current_user", outcome |-> outcome])
          /\ manager' =
                IF outcome.kind = "no_response"
                THEN [manager EXCEPT !.pc = "raised", !.exc = outcome.exception]
                ELSE IF RaiseForStatus(outcome)
                THEN [manager EXCEPT !.pc = "raised", !.exc = "SpotifyException"]
                ELSE [manager EXCEPT !.pc = "done",
                                     !.user_id = JStr(outcome.body.v.id)]
    /\ UNCHANGED <<frame, scraper, batch, add, flow, call>>

NextManager == ReadCredentials \/ CreateClient \/ CurrentUser

\* One construction, with any arguments in any environment.
InitManager ==
    /\ scraper = NewScraper
    /\ frame = [f \in Frames |-> IdleFrame]
    /\ sent = <<>>
    /\ batch = IdleBatch
    /\ add = IdleAdd
    /\ flow = IdleFlow
    /\ call = IdleCall
    /\ \E args \in [client_id : Credentials, client_secret : Credentials,
                    redirect_uri : RedirectUris],
          env \in [SPOTIFY_CLIENT_ID : Credentials,
                   SPOTIFY_CLIENT_SECRET : Credentials,
                   SPOTIFY_REDIRECT_URI : RedirectUris] :
          manager = ManagerEntry(args, env)

SpecManager == InitManager /\ [][NextManager]_vars

(***************************************************************************)
(* SpotifyWebScraper._format_duration (web scraper 247-254).  The string   *)
(* returned is a sequence of characters; an int is tagged "int".           *)
(***************************************************************************)
MaxMinutes == 11

\* An int of the program.
JInt(n) == [t |-> "int", v |-> n]

\* The decimal digit d as a character.
DigitChar(d) ==
    <<"0", "1", "2", "3", "4", "5", "6", "7", "8", "9">>[d + 1]

RECURSIVE DecimalOf(_)
\* Line 254, {minutes}: str() of an int that is not negative, its decimal
\* digits without leading zero.
DecimalOf(n) ==
    IF n < 10 THEN <<DigitChar(n)>> ELSE Append(DecimalOf(n \div 10), DigitChar(n % 10))

\* Pad2 without the fill: the digits as str() gives them.
Pad2_noFill(n) == DecimalOf(n)

\* Line 254, {seconds:02d}: the decimal digits, filled with zeros on the
\* left up to the width 2.
Pad2(n) ==
    IF Len(DecimalOf(n)) < 2 THEN <<"0">> \o DecimalOf(n) ELSE DecimalOf(n)

\* Lines 249-254 on duration_ms, None or an int that is not negative.
FormatDuration(duration_ms) ==
    IF ~Truthy(duration_ms)
    THEN <<"0", ":", "0", "0">>
    ELSE LET minutes == duration_ms.v \div 60000
             seconds == (duration_ms.v % 60000) \div 1000
         IN  DecimalOf(minutes) \o <<":">> \o Pad2(seconds)

\* The durations of the model: a missing one, and minutes, seconds and
\* milliseconds at and beside the turns of each field, with two-, three-
\* and four-digit minutes.
Durations ==
    { JNull }
    \cup { JInt(m * 60000 + sec * 1000 + r) :
              m \in 0..MaxMinutes \cup {99, 100, 1000},
              sec \in {0, 1, 9, 10, 59},
              r \in {0, 1, 999} }

\* Line 247: the method called on duration_ms.
DurationEntry(duration_ms) ==
    [pc |-> "format", method |-> "_format_duration", duration_ms |-> duration_ms,
     value |-> <<>>]

\* Lines 249-254: the method returns its string.
FormatDurationReturn ==
    /\ call.pc = "format"
    /\ call' = [call EXCEPT !.pc = "done", !.value = FormatDuration(call.duration_ms)]
    /\ UNCHANGED <<frame, scraper, sent, batch, add, flow, manager>>

\* One invocation of _format_duration, on any of the durations.
InitDuration ==
    /\ scraper = NewScraper
    /\ frame = [f \in Frames |-> IdleFrame]
    /\ sent = <<>>
    /\ batch = IdleBatch
    /\ add = IdleAdd
    /\ flow = IdleFlow
    /\ manager = IdleManager
    /\ \E d \in Durations : call = DurationEntry(d)

SpecDuration == InitDuration /\ [][FormatDurationReturn]_vars

(***************************************************************************)
(* What the claims speak of.                                               *)
(***************************************************************************)
\* The score of track j of invocation f's list.
ScoreOf(f, j) ==
    TrackScore(frame[f].target_song, frame[f].target_artist, frame[f].tracks[j])

\* The greatest score in invocation f's list, 0 for the empty list.
MaxScore(f) ==
    IF frame[f].tracks = <<>>
    THEN 0
    ELSE CHOOSE m \in 0..6 :
            /\ \E j \in 1..Len(frame[f].tracks) : ScoreOf(f, j) = m
            /\ \A j \in 1..Len(frame[f].tracks) : ScoreOf(f, j) <= m

\* Invocation f has returned.
Done(f) == frame[f].pc = "done"

\* String sub occurs in string s at some position, character for character.
Occurs(sub, s) ==
    \E a \in 1..(Len(s) + 1) :
        /\ a + Len(sub) - 1 <= Len(s)
        /\ \A k \in 1..Len(sub) : s[a + k - 1] = sub[k]

\* The whitespace-delimited tokens of s: its maximal runs without a blank.
Tokens(s) ==
    { SubSeq(s, ab[1], ab[2]) :
        ab \in { x \in (1..Len(s)) \X (1..Len(s)) :
                    /\ x[1] <= x[2]
                    /\ \A k \in x[1]..x[2] : s[k] # " "
                    /\ (x[1] = 1 \/ s[x[1] - 1] = " ")
                    /\ (x[2] = Len(s) \/ s[x[2] + 1] = " ") } }

\* The lower-cased target t is a substring of the lower-cased name s.
WholeOccurs(t, s) == Occurs(Lower(t), Lower(s))

\* Some token of the lower-cased target t is a substring of the lower-cased
\* name s.
WordOccurs(t, s) == \E w \in Tokens(Lower(t)) : Occurs(w, Lower(s))

\* The track invocation f is scoring.
Current(f) == frame[f].tracks[frame[f].i]

\* Track j of invocation f's list has the target's title, letter case aside.
ExactTitle(f, j) == Lower(frame[f].tracks[j].name) = Lower(frame[f].target_song)

\* One of the artist names of track j is the target artist name.
ExactArtist(f, j) ==
    \E k \in 1..Len(frame[f].tracks[j].artist_names) :
        frame[f].tracks[j].artist_names[k] = frame[f].target_artist

\* The first artist of track j that matches the target artist at all, by a
\* token or by the whole name, matches it by the whole name.
FirstMatchIsWhole(f, j) ==
    LET names == frame[f].tracks[j].artist_names
        ta    == frame[f].target_artist
    IN  \E k \in 1..Len(names) :
            /\ WholeOccurs(ta, names[k])
            /\ \A h \in 1..(k - 1) :
                  ~WholeOccurs(ta, names[h]) /\ ~WordOccurs(ta, names[h])

\* Track j contains no token of the target: its name none of the title's, its
\* artist names none of the artist's.
NoTokenIn(f, j) ==
    /\ ~WordOccurs(frame[f].target_song, frame[f].tracks[j].name)
    /\ \A k \in 1..Len(frame[f].tracks[j].artist_names) :
          ~WordOccurs(frame[f].target_artist, frame[f].tracks[j].artist_names[k])

\* Track j does not contain the target's title or artist name as a whole.
NoWholeIn(f, j) ==
    /\ ~WholeOccurs(frame[f].target_song, frame[f].tracks[j].name)
    /\ \A k \in 1..Len(frame[f].tracks[j].artist_names) :
          ~WholeOccurs(frame[f].target_artist, frame[f].tracks[j].artist_names[k])

\* Invocation f has just scored track j.
Scored(f, j) == frame[f].pc = "update" /\ frame[f].i = j

\* str.upper() on one character; the eszett has no single capital.
UpperChar(c) ==
    CASE c = "a" -> <<"A">>
      [] c = "b" -> <<"B">>
      [] c = "c" -> <<"C">>
      [] c = "p" -> <<"P">>
      [] c = "q" -> <<"Q">>
      [] c = "r" -> <<"R">>
      [] c = "s" -> <<"S">>
      [] c = "eszett" -> <<"S", "S">>
      [] OTHER -> <<c>>

RECURSIVE Upper(_)
\* str.upper().
Upper(s) == IF s = <<>> THEN <<>> ELSE UpperChar(Head(s)) \o Upper(Tail(s))

\* A track with its name and artist names in capitals, in small letters.
UpperTrack(t) ==
    [name |-> Upper(t.name),
     artist_names |-> [k \in 1..Len(t.artist_names) |-> Upper(t.artist_names[k])]]

LowerTrack(t) ==
    [name |-> Lower(t.name),
     artist_names |-> [k \in 1..Len(t.artist_names) |-> Lower(t.artist_names[k])]]

\* A string, a track, a list of tracks in its three letter cases.
Cases(s) == {s, Upper(s), Lower(s)}

TrackCases(t) == {t, UpperTrack(t), LowerTrack(t)}

ListCases(ts) ==
    {ts, [k \in 1..Len(ts) |-> UpperTrack(ts[k])],
         [k \in 1..Len(ts) |-> LowerTrack(ts[k])]}

\* The permutations of 1..n.
Perms(n) ==
    { p \in [1..n -> 1..n] : \A a, b \in 1..n : p[a] = p[b] => a = b }

\* Exactly one track of invocation f's list has the greatest score.
UniqueMax(f) ==
    Cardinality({ j \in 1..Len(frame[f].tracks) : ScoreOf(f, j) = MaxScore(f) }) = 1

(***************************************************************************)
(* C1: a returned track is the one at the smallest index whose score is    *)
(* the greatest score of the list; of two tracks of equal score the later  *)
(* is never returned in preference to the earlier.                         *)
(***************************************************************************)
C1_FirstOfBestScore ==
    \A f \in Frames :
        (Done(f) /\ frame[f].result # NoTrack) =>
            /\ frame[f].result \in 1..Len(frame[f].tracks)
            /\ ScoreOf(f, frame[f].result) = MaxScore(f)
            /\ \A j \in 1..(frame[f].result - 1) : ScoreOf(f, j) < MaxScore(f)

\* Two different tracks tie for the greatest score and the earlier is returned.
C1_Witness ==
    /\ Done(1)
    /\ \E j, k \in 1..Len(frame[1].tracks) :
          /\ j < k
          /\ frame[1].tracks[j] # frame[1].tracks[k]
          /\ ScoreOf(1, j) = MaxScore(1)
          /\ ScoreOf(1, k) = MaxScore(1)
          /\ \A h \in 1..(j - 1) : ScoreOf(1, h) < MaxScore(1)
          /\ frame[1].result = j

(***************************************************************************)
(* C2: the matcher returns a track if and only if the greatest score of    *)
(* the list is at least 2; it returns None when every track scores 0 or 1. *)
(***************************************************************************)
C2_MatchIffScoreAtLeast2 ==
    \A f \in Frames :
        Done(f) => ((frame[f].result # NoTrack) <=> (MaxScore(f) >= 2))

\* Some track scores 1, none more, it was kept as the best one and None is
\* returned.
C2_Witness ==
    /\ Done(1)
    /\ MaxScore(1) = 1
    /\ frame[1].best_track # NoTrack
    /\ frame[1].result = NoTrack

(***************************************************************************)
(* C3 as claimed: a track whose name equals the target title (letter case  *)
(* aside) and one of whose artist names equals the target artist name      *)
(* scores 6 and is the track returned whenever it is in the list.          *)
(***************************************************************************)
C3_ExactMatchSelected ==
    \A f \in Frames : \A j \in 1..Len(frame[f].tracks) :
        (ExactTitle(f, j) /\ ExactArtist(f, j)) =>
            /\ Scored(f, j) => frame[f].score = 6
            /\ Done(f) => frame[f].result = j

(***************************************************************************)
(* C3, what the code does instead: such a track scores 6 when the first of its artists that    *)
(* matches the target artist at all matches the whole name, and 4          *)
(* otherwise; so a track is always returned, and it is this one when it    *)
(* scores 6 and no earlier track scores 6.                                 *)
(***************************************************************************)
C3_ExactMatchScores4Or6 ==
    \A f \in Frames : \A j \in 1..Len(frame[f].tracks) :
        (ExactTitle(f, j) /\ ExactArtist(f, j)) =>
            /\ Scored(f, j) =>
                  /\ frame[f].score \in {4, 6}
                  /\ (frame[f].score = 6) <=> FirstMatchIsWhole(f, j)
            /\ Done(f) =>
                  /\ frame[f].result # NoTrack
                  /\ (FirstMatchIsWhole(f, j)
                        /\ \A h \in 1..(j - 1) : ScoreOf(f, h) < 6)
                     => frame[f].result = j

\* An exact match that scores 4 comes first, an exact match that scores 6
\* after it, and the later one is returned.
C3_Witness ==
    /\ Done(1)
    /\ \E h, j \in 1..Len(frame[1].tracks) :
          /\ h < j
          /\ ExactTitle(1, h) /\ ExactArtist(1, h) /\ ~FirstMatchIsWhole(1, h)
          /\ ExactTitle(1, j) /\ ExactArtist(1, j) /\ FirstMatchIsWhole(1, j)
          /\ frame[1].result = j

(***************************************************************************)
(* C4 as claimed: for every target, empty and blank ones included, a track *)
(* whose name contains no token of the target title and whose artist names *)
(* contain no token of the target artist name scores 0 and is never        *)
(* returned.                                                               *)
(***************************************************************************)
C4_NoTokenScoresZero ==
    \A f \in Frames : \A j \in 1..Len(frame[f].tracks) :
        NoTokenIn(f, j) =>
            /\ Scored(f, j) => frame[f].score = 0
            /\ Done(f) => frame[f].result # j

(***************************************************************************)
(* C4 amended: such a track scores 0 and is never returned provided the    *)
(* target title is not a substring of its name and the target artist name  *)
(* not a substring of any of its artist names (an empty title or artist    *)
(* name is a substring of every name, a blank one of every name with a     *)
(* blank in it).                                                           *)
(***************************************************************************)
C4_NoTokenNoSubstringScoresZero ==
    \A f \in Frames : \A j \in 1..Len(frame[f].tracks) :
        (NoTokenIn(f, j) /\ NoWholeIn(f, j)) =>
            /\ Scored(f, j) => frame[f].score = 0
            /\ Done(f) => frame[f].result # j

\* The title is blank, a track without a blank in its names scored 0 and
\* another track of the list was returned.
C4_Witness ==
    /\ Done(1)
    /\ frame[1].target_song = <<" ">>
    /\ \E j \in 1..Len(frame[1].tracks) :
          /\ NoTokenIn(1, j) /\ NoWholeIn(1, j)
          /\ ScoreOf(1, j) = 0
          /\ frame[1].result \notin {NoTrack, j}

(***************************************************************************)
(* C5: the artist contribution to a track's score is 3 when the            *)
(* lower-cased target artist name is a substring of at least one of the    *)
(* track's lower-cased artist names, otherwise 1 when some token of the    *)
(* target artist name is a substring of at least one of them, otherwise 0. *)
(***************************************************************************)
C5_ArtistContribution ==
    [][ \A f \in Frames :
          (frame[f].pc = "artist" /\ frame'[f].pc = "update") =>
              LET names == Current(f).artist_names
                  ta    == frame[f].target_artist
              IN  frame'[f].score - frame[f].score =
                     IF \E k \in 1..Len(names) : WholeOccurs(ta, names[k])
                     THEN 3
                     ELSE IF \E k \in 1..Len(names) : WordOccurs(ta, names[k])
                          THEN 1
                          ELSE 0 ]_vars

(***************************************************************************)
(* C6: the title contribution to a track's score is one of 3, 1 and 0: 3   *)
(* if and only if the lower-cased target title is a substring of the       *)
(* lower-cased track name, 1 if and only if it is not and some token of    *)
(* the lower-cased title is, 0 otherwise; never both additions.            *)
(***************************************************************************)
C6_TitleContribution ==
    \A f \in Frames :
        frame[f].pc = "artist" =>
            LET whole == WholeOccurs(frame[f].target_song, Current(f).name)
                word  == WordOccurs(frame[f].target_song, Current(f).name)
            IN  /\ frame[f].score \in {0, 1, 3}
                /\ (frame[f].score = 3) <=> whole
                /\ (frame[f].score = 1) <=> (~whole /\ word)
                /\ (frame[f].score = 0) <=> (~whole /\ ~word)

\* The title is not in the track name, one of its tokens is, and 1 was added.
C6_Witness ==
    /\ frame[1].pc = "artist"
    /\ ~WholeOccurs(frame[1].target_song, Current(1).name)
    /\ WordOccurs(frame[1].target_song, Current(1).name)
    /\ frame[1].score = 1

(***************************************************************************)
(* C7: for every target, the matcher called with an empty list returns     *)
(* None.                                                                   *)
(***************************************************************************)
C7_EmptyListNoMatch ==
    \A f \in Frames :
        (Done(f) /\ frame[f].tracks = <<>>) => frame[f].result = NoTrack

\* An invocation with a non-empty target and no tracks has returned None.
C7_Witness ==
    /\ Done(1)
    /\ frame[1].tracks = <<>>
    /\ frame[1].target_song # <<>>
    /\ frame[1].target_artist # <<>>
    /\ frame[1].result = NoTrack

(***************************************************************************)
(* C8: matching is case-insensitive: changing the letter case of the       *)
(* target title, of the target artist name or of a track's name and artist *)
(* names changes neither the track's score nor the index of the track      *)
(* returned.                                                               *)
(***************************************************************************)
C8_CaseInsensitive ==
    \A f \in Frames :
        /\ frame[f].pc = "update" =>
              \A s \in Cases(frame[f].target_song) :
              \A a \in Cases(frame[f].target_artist) :
              \A t \in TrackCases(Current(f)) :
                  TrackScore(s, a, t) = frame[f].score
        /\ Done(f) =>
              \A s \in Cases(frame[f].target_song) :
              \A a \in Cases(frame[f].target_artist) :
              \A ts \in ListCases(frame[f].tracks) :
                  FindBestMatch(s, a, ts) = frame[f].result

(***************************************************************************)
(* C9: the order of the tracks matters only as the tie-break: a track's    *)
(* score depends on the target and the track alone, and when exactly one   *)
(* track has the greatest score every permutation of the list returns that *)
(* same track, and None under every permutation when the greatest score is *)
(* below 2.                                                                *)
(***************************************************************************)
C9_OrderOnlyBreaksTies ==
    \A f \in Frames :
        /\ frame[f].pc = "update" =>
              frame[f].score =
                  TrackScore(frame[f].target_song, frame[f].target_artist, Current(f))
        /\ (Done(f) /\ (UniqueMax(f) \/ MaxScore(f) < 2)) =>
              \A p \in Perms(Len(frame[f].tracks)) :
                  LET r == FindBestMatch(frame[f].target_song, frame[f].target_artist,
                               [k \in 1..Len(frame[f].tracks) |-> frame[f].tracks[p[k]]])
                  IN  IF frame[f].result = NoTrack
                      THEN r = NoTrack
                      ELSE r # NoTrack /\ p[r] = frame[f].result

\* Three different tracks, the last one alone has the greatest score and is
\* returned.
C9_Witness ==
    /\ Done(1)
    /\ Len(frame[1].tracks) = 3
    /\ Cardinality({ frame[1].tracks[j] : j \in 1..3 }) = 3
    /\ UniqueMax(1)
    /\ ScoreOf(1, 1) > 0 /\ ScoreOf(1, 1) < ScoreOf(1, 2)
    /\ frame[1].result = 3

(***************************************************************************)
(* C10: the matcher is a pure function of the target and the list: an      *)
(* invocation leaves the list, its tracks and the scraper object as they   *)
(* were, a step of one invocation changes no other invocation, and the     *)
(* value returned is the function's value on the arguments, whatever       *)
(* invocations ran before it or are interleaved with it.                   *)
(***************************************************************************)
C10_PureFunction ==
    [][ /\ scraper' = scraper
        /\ \A f \in Frames :
              /\ frame[f].pc \notin {"idle", "done"} =>
                    /\ frame'[f].tracks = frame[f].tracks
                    /\ frame'[f].target_song = frame[f].target_song
                    /\ frame'[f].target_artist = frame[f].target_artist
              /\ frame'[f] # frame[f] =>
                    \A g \in Frames \ {f} : frame'[g] = frame[g]
              /\ frame'[f].pc = "done" =>
                    frame'[f].result =
                        FindBestMatch(frame'[f].target_song, frame'[f].target_artist,
                                      frame'[f].tracks) ]_vars

\* Invocation 1 has returned a track while invocation 2, on another target
\* and another list, is at its second track.
C10_Witness ==
    /\ Done(1)
    /\ frame[1].result # NoTrack
    /\ frame[2].pc = "update"
    /\ frame[2].i = 2
    /\ frame[2].tracks # frame[1].tracks
    /\ frame[2].target_song # frame[1].target_song

(***************************************************************************)
(* C11: on every well-formed input (any target strings, the empty ones     *)
(* included, any finite list of tracks with a name and at least one artist *)
(* name) the matcher terminates and yields one of the candidates of the    *)
(* list or None, never an error: while it runs it indexes the list inside  *)
(* its range, and it always reaches its return.                            *)
(***************************************************************************)
C11_TerminatesWithCandidateOrNone ==
    /\ [](\A f \in Frames :
            /\ frame[f].pc \in {"song", "artist", "update"} =>
                   frame[f].i \in 1..Len(frame[f].tracks)
            /\ Done(f) => frame[f].result \in {NoTrack} \cup (1..Len(frame[f].tracks)))
    /\ <>Done(1)

\* The matcher has returned None for a target of two empty strings on an
\* empty list, or a candidate of a list of MaxTracks tracks.
C11_Witness ==
    /\ Done(1)
    /\ \/ /\ frame[1].target_song = <<>>
          /\ frame[1].target_artist = <<>>
          /\ frame[1].tracks = <<>>
          /\ frame[1].result = NoTrack
       \/ /\ Len(frame[1].tracks) = MaxTracks
          /\ frame[1].result = MaxTracks

(***************************************************************************)
(* C12: the score of a candidate is the sum of a title contribution and an *)
(* artist contribution, each 0, 1 or 3; it is one of 0, 1, 2, 3, 4, 6      *)
(* (never 5), and it reaches the threshold 2 exactly when at least one     *)
(* field matches by the full substring or both fields match by a token.    *)
(***************************************************************************)
\* The title contribution the specification gives track j: 3 for the whole
\* title, else 1 for a token of it, else 0.
TitlePoints(f, j) ==
    IF WholeOccurs(frame[f].target_song, frame[f].tracks[j].name)
    THEN 3
    ELSE IF WordOccurs(frame[f].target_song, frame[f].tracks[j].name) THEN 1 ELSE 0

\* Some artist name of track j contains the whole target artist name; some
\* artist name contains a token of it.
ArtistWholeOccurs(f, j) ==
    \E k \in 1..Len(frame[f].tracks[j].artist_names) :
        WholeOccurs(frame[f].target_artist, frame[f].tracks[j].artist_names[k])

ArtistWordOccurs(f, j) ==
    \E k \in 1..Len(frame[f].tracks[j].artist_names) :
        WordOccurs(frame[f].target_artist, frame[f].tracks[j].artist_names[k])

C12_ScoreSumAndThreshold ==
    \A f \in Frames : \A j \in 1..Len(frame[f].tracks) :
        Scored(f, j) =>
            /\ \E a \in {0, 1, 3} : frame[f].score = TitlePoints(f, j) + a
            /\ frame[f].score \in {0, 1, 2, 3, 4, 6}
            /\ (frame[f].score >= 2) <=>
                  \/ WholeOccurs(frame[f].target_song, frame[f].tracks[j].name)
                  \/ ArtistWholeOccurs(f, j)
                  \/ /\ WordOccurs(frame[f].target_song, frame[f].tracks[j].name)
                     /\ ArtistWordOccurs(f, j)

\* What the code guarantees: the same, with the artist field matching by the
\* full substring only when the first artist that matches at all does so.
C12_ScoreSumAndThresholdFirstArtist ==
    \A f \in Frames : \A j \in 1..Len(frame[f].tracks) :
        Scored(f, j) =>
            /\ \E a \in {0, 1, 3} : frame[f].score = TitlePoints(f, j) + a
            /\ frame[f].score \in {0, 1, 2, 3, 4, 6}
            /\ (frame[f].score >= 2) <=>
                  \/ WholeOccurs(frame[f].target_song, frame[f].tracks[j].name)
                  \/ FirstMatchIsWhole(f, j)
                  \/ /\ WordOccurs(frame[f].target_song, frame[f].tracks[j].name)
                     /\ ArtistWordOccurs(f, j)

\* Invocation f runs on the worked example e.
Runs(f, e) ==
    /\ frame[f].pc # "idle"
    /\ frame[f].target_song = e.song
    /\ frame[f].target_artist = e.artist
    /\ frame[f].tracks = e.tracks

(***************************************************************************)
(* C13: for the target ("Bailando", "Paradisio") and the candidates        *)
(* "Bailando" by ["Paradisio"] and "Bailando (Remix)" by ["DJ X"], in that *)
(* order, the matcher returns the first candidate, whose score is 6.       *)
(***************************************************************************)
C13_BailandoReturnsFirst ==
    \A f \in Frames :
        Runs(f, BailandoExample) =>
            /\ Scored(f, 1) => frame[f].score = 6
            /\ Done(f) => frame[f].result = 1 /\ frame[f].best_score = 6

\* The example has returned the first candidate, after scoring the second 3.
C13_Witness ==
    /\ Runs(1, BailandoExample)
    /\ Done(1)
    /\ frame[1].result = 1
    /\ frame[1].score = 3

(***************************************************************************)
(* C14: for the target ("Unknown Song", "Unknown Artist") and the single   *)
(* candidate "Totally Different" by ["Nobody"], the candidate scores 0 and *)
(* the matcher returns None.                                               *)
(***************************************************************************)
C14_UnknownReturnsNone ==
    \A f \in Frames :
        Runs(f, UnknownExample) =>
            /\ Scored(f, 1) => frame[f].score = 0
            /\ Done(f) => frame[f].result = NoTrack /\ frame[f].best_score = 0

\* The example has returned None with the candidate scored 0.
C14_Witness ==
    /\ Runs(1, UnknownExample)
    /\ Done(1)
    /\ frame[1].score = 0
    /\ frame[1].result = NoTrack

\* The tracks the search request logged at position k returned to the batch.
TracksOfSearch(k) == SearchTrack(batch.cls, sent[k].outcome).value

\* The matcher's result on the tracks of the search for target k of the batch.
MatchOfSearch(k) ==
    IF TracksOfSearch(k) = <<>>
    THEN NoTrack
    ELSE FindBestMatch(batch.songs_and_artists[k].song,
                       batch.songs_and_artists[k].artist, TracksOfSearch(k))

(***************************************************************************)
(* C15: search_tracks_batch handles the targets in input order, with one   *)
(* search per target (query "<artist> <song>", limit 3), and appends the   *)
(* matcher's result only when it is a match; a target without results or   *)
(* without a match is skipped.  The returned list has at most one entry    *)
(* per target, in target order, each a candidate of that target's search.  *)
(***************************************************************************)
C15_BatchInOrderOneSearchEach ==
    batch.pc # "idle" =>
        LET sa == batch.songs_and_artists
        IN  /\ Len(sent) <= Len(sa)
            /\ \A k \in 1..Len(sent) :
                  /\ sent[k].op = "search"
                  /\ sent[k].search_term = sa[k].artist \o <<" ">> \o sa[k].song
                  /\ sent[k].limit = 3
            /\ batch.pc = "done" => Len(sent) = Len(sa)
            /\ Len(batch.origin) = Len(batch.all_tracks)
            /\ \A k \in 1..Len(batch.origin) :
                  /\ batch.origin[k] \in 1..Len(sent)
                  /\ \A h \in 1..(k - 1) : batch.origin[h] < batch.origin[k]
                  /\ \E j \in 1..Len(TracksOfSearch(batch.origin[k])) :
                        batch.all_tracks[k] = TracksOfSearch(batch.origin[k])[j]
                  /\ MatchOfSearch(batch.origin[k]) # NoTrack
                  /\ batch.all_tracks[k] =
                        TracksOfSearch(batch.origin[k])[MatchOfSearch(batch.origin[k])]
            /\ batch.pc = "done" =>
                  \A t \in 1..Len(sa) :
                      (\E k \in 1..Len(batch.origin) : batch.origin[k] = t)
                          <=> MatchOfSearch(t) # NoTrack

\* A batch of MaxTargets targets has returned: its first target had search
\* results but no match and was skipped, its last target was matched.
C15_Witness ==
    /\ batch.pc = "done"
    /\ Len(batch.songs_and_artists) = MaxTargets
    /\ TracksOfSearch(1) # <<>>
    /\ MatchOfSearch(1) = NoTrack
    /\ batch.origin = <<MaxTargets>>

RECURSIVE Flatten(_)
\* The lists of a list, one after the other.
Flatten(lists) ==
    IF lists = <<>> THEN <<>> ELSE Head(lists) \o Flatten(Tail(lists))

\* The URIs of the add requests sent so far, in the order sent.
UrisSent == Flatten([k \in 1..Len(sent) |-> sent[k].uris])

(***************************************************************************)
(* C17: add_tracks_to_playlist, of the token scraper and of the playlist   *)
(* manager, called with a list of n > 0 URIs sends ceil(n/100) requests    *)
(* when all succeed, each with at most 100 URIs, whose lists one after the *)
(* other are the input list in order, and then returns True; called with   *)
(* an empty list it sends no request and returns False.                    *)
(***************************************************************************)
C17_AddInBatchesOf100 ==
    add.pc # "idle" =>
        LET n == Len(add.track_uris)
        IN  /\ \A k \in 1..Len(sent) :
                  /\ sent[k].op = "add"
                  /\ sent[k].playlist_id = add.playlist_id
                  /\ Len(sent[k].uris) \in 1..100
            /\ Len(UrisSent) <= n
            /\ UrisSent = SubSeq(add.track_uris, 1, Len(UrisSent))
            /\ (n > 0 /\ add.pc \in {"done", "raised"}
                      /\ \A k \in 1..Len(sent) : Succeeded(sent[k].outcome)) =>
                  /\ add.pc = "done"
                  /\ add.result = TRUE
                  /\ Len(sent) = (n + 99) \div 100
                  /\ UrisSent = add.track_uris
            /\ (add.pc = "done" /\ add.result = TRUE) => UrisSent = add.track_uris
            /\ n = 0 => add.pc = "done" /\ add.result = FALSE /\ sent = <<>>

\* A list of a URI more than two batches has been added in three requests,
\* the last with one URI, and True returned.
C17_Witness ==
    /\ add.pc = "done"
    /\ add.result = TRUE
    /\ Len(add.track_uris) = 2 * 100 + 1
    /\ Len(sent) = 3
    /\ Len(sent[3].uris) = 1

\* The failure value the methods of the token scraper document: None for
\* create_playlist and get_current_user, [] for the methods returning lists.
FailureValue(method) ==
    IF method \in {"create_playlist", "get_current_user"} THEN JNull ELSE JList(<<>>)

\* A request of the invocation of add_tracks_to_playlist has failed; has
\* failed with an error status.
AddRequestFailed == \E k \in 1..Len(sent) : ~Succeeded(sent[k].outcome)

AddRequestRefused ==
    \E k \in 1..Len(sent) : sent[k].outcome.kind = "response" /\ ~Succeeded(sent[k].outcome)

(***************************************************************************)
(* C16: every request method of SpotifyTokenScraper returns its documented *)
(* failure value and does not raise when the HTTP request fails, by an     *)
(* error status of the server or before any response is received: None    *)
(* for create_playlist and get_current_user, False for                     *)
(* add_tracks_to_playlist, [] for search_track, get_user_playlists and     *)
(* get_playlist_tracks.                                                    *)
(***************************************************************************)
C16_FailedRequestReturnsFailureValue ==
    /\ (call.pc \in {"done", "raised"} /\ call.cls = "token"
            /\ ~Succeeded(call.outcome)) =>
          /\ call.pc = "done"
          /\ call.value = FailureValue(call.method)
    /\ (add.pc \in {"done", "raised"} /\ add.cls = "token" /\ AddRequestFailed) =>
          /\ add.pc = "done"
          /\ add.result = FALSE

\* What the code guarantees: the same for a request answered with an error
\* status.
C16_RefusedRequestReturnsFailureValue ==
    /\ (call.pc \in {"done", "raised"} /\ call.cls = "token"
            /\ call.outcome.kind = "response" /\ ~Succeeded(call.outcome)) =>
          /\ call.pc = "done"
          /\ call.value = FailureValue(call.method)
    /\ (add.pc \in {"done", "raised"} /\ add.cls = "token" /\ AddRequestRefused) =>
          /\ add.pc = "done"
          /\ add.result = FALSE

\* The invocation is one of the web scraper's search_track that is over.
WebSearchOver ==
    /\ call.pc \in {"done", "raised"}
    /\ call.cls = "web"
    /\ call.method = "search_track"

\* The decoded body has data.searchV2.
HasSearchV2(body) ==
    /\ body.t = "dict"
    /\ "data" \in DOMAIN body.v
    /\ body.v.data.t = "dict"
    /\ "searchV2" \in DOMAIN body.v.data.v

\* The body has data.searchV2.tracksV2.items, a list of items that are dicts.
HasItems(body) ==
    /\ HasSearchV2(body)
    /\ body.v.data.v.searchV2.t = "dict"
    /\ "tracksV2" \in DOMAIN body.v.data.v.searchV2.v
    /\ body.v.data.v.searchV2.v.tracksV2.t = "dict"
    /\ "items" \in DOMAIN body.v.data.v.searchV2.v.tracksV2.v
    /\ body.v.data.v.searchV2.v.tracksV2.v.items.t = "list"
    /\ \A k \in 1..Len(body.v.data.v.searchV2.v.tracksV2.v.items.v) :
          body.v.data.v.searchV2.v.tracksV2.v.items.v[k].t = "dict"

\* The tracks _extract_track_info makes of the items that have an 'item',
\* in the order of the response.
TracksInOrder(body) ==
    LET items == body.v.data.v.searchV2.v.tracksV2.v.items.v
    IN  Flatten([k \in 1..Len(items) |->
                    IF "item" \in DOMAIN items[k].v
                    THEN ExtractTrackInfo(items[k].v.item)
                    ELSE <<>>])

(***************************************************************************)
(* C20: SpotifyWebScraper.search_track returns a list for every outcome of *)
(* its request and never raises: the extracted tracks in response order    *)
(* when the body has data.searchV2, and [] on an HTTP error status, a      *)
(* connection failure, an undecodable body, or a body of any other shape   *)
(* (data null, tracksV2 lacking items).                                    *)
(***************************************************************************)
C20_SearchTrackAlwaysReturnsList ==
    WebSearchOver =>
        /\ call.pc = "done"
        /\ call.value.t = "list"
        /\ call.value.v =
              IF Succeeded(call.outcome) /\ HasItems(call.outcome.body)
              THEN TracksInOrder(call.outcome.body)
              ELSE <<>>

\* What the code guarantees: the list, when the request failed, the body is
\* undecodable, or the body is a dict that lacks data.searchV2 without data
\* being null, or has tracksV2.items with items that are dicts.
C20_SearchTrackReturnsListOnKnownShapes ==
    (/\ WebSearchOver
     /\ \/ ~Succeeded(call.outcome)
        \/ call.outcome.body.t = "undecodable"
        \/ HasItems(call.outcome.body)
        \/ /\ call.outcome.body.t \in {"dict", "list"}
           /\ ~HasSearchV2(call.outcome.body)
           /\ ~(In("data", call.outcome.body) /\ call.outcome.body.v.data.t = "null")) =>
        /\ call.pc = "done"
        /\ call.value.t = "list"
        /\ call.value.v =
              IF Succeeded(call.outcome) /\ HasItems(call.outcome.body)
              THEN TracksInOrder(call.outcome.body)
              ELSE <<>>

\* The positions in the log of the requests of kind op.
Sent(op) == { k \in 1..Len(sent) : sent[k].op = op }

\* The answer to the create-playlist request at position j carries an id.
ReturnedId(j) ==
    /\ Succeeded(sent[j].outcome)
    /\ "id" \in DOMAIN sent[j].outcome.body.v
    /\ sent[j].outcome.body.v.id # ""

Given(value) == value.t = "str" /\ value.v # ""

IdAvailable ==
    Given(manager.args.client_id) \/ Given(manager.env.SPOTIFY_CLIENT_ID)

SecretAvailable ==
    Given(manager.args.client_secret) \/ Given(manager.env.SPOTIFY_CLIENT_SECRET)

(***************************************************************************)
(* C19: constructing SpotifyPlaylistManager raises ValueError, before any  *)
(* Spotify client is created and any request sent, whenever the client id  *)
(* or the client secret is available neither as an argument nor in the     *)
(* environment, an empty string counting as unavailable; when both are     *)
(* available the constructor raises no ValueError.                         *)
(***************************************************************************)
C19_ValueErrorWithoutCredentials ==
    manager.pc \notin {"idle", "init"} =>
        /\ ~(IdAvailable /\ SecretAvailable) =>
              /\ manager.pc = "raised"
              /\ manager.exc = "ValueError"
              /\ manager.sp = FALSE
              /\ sent = <<>>
        /\ (IdAvailable /\ SecretAvailable) => manager.exc # "ValueError"

\* ValueError has been raised for an id that is the empty string in the
\* environment, with the secret given as an argument.
C19_Witness ==
    /\ manager.pc = "raised"
    /\ manager.exc = "ValueError"
    /\ manager.args.client_id = JNull
    /\ manager.env.SPOTIFY_CLIENT_ID = JStr("")
    /\ Given(manager.args.client_secret)

\* The URIs of the matches of the batch, in the order matched.
MatchedUris ==
    IF flow.cls = "token"
    THEN [k \in 1..Len(batch.all_tracks) |-> batch.all_tracks[k].uri]
    ELSE batch.all_tracks

\* The add requests sent, in the order sent.
AddsSent == SelectSeq(sent, LAMBDA r : r.op = "add")

(***************************************************************************)
(* C21: when create_playlist_from_songs returns a result with success      *)
(* True, a playlist was created (the create-playlist request was answered  *)
(* with the id in the result), every add request succeeded and their URI   *)
(* lists one after the other are the URIs of the matches, each once and in *)
(* match order, and 1 <= tracks_found <= tracks_requested; the caller's    *)
(* success rate tracks_found / tracks_requested, computed only when        *)
(* success is True, raises no ZeroDivisionError.                           *)
(***************************************************************************)
C21_SuccessMeansCreatedAndPosted ==
    (flow.pc \in {"done", "reported"} /\ flow.result.success) =>
        /\ \E j \in Sent("create_playlist") :
              /\ ReturnedId(j)
              /\ sent[j].outcome.body.v.id = flow.result.playlist_id
        /\ \A k \in 1..Len(AddsSent) :
              /\ Succeeded(AddsSent[k].outcome)
              /\ AddsSent[k].playlist_id = flow.result.playlist_id
        /\ Flatten([k \in 1..Len(AddsSent) |-> AddsSent[k].uris]) = MatchedUris
        /\ flow.result.tracks_found = Len(MatchedUris)
        /\ flow.result.tracks_requested = Len(flow.songs_and_artists)
        /\ 1 <= flow.result.tracks_found
        /\ flow.result.tracks_found <= flow.result.tracks_requested
        /\ flow.pc = "reported" =>
              /\ flow.report.exc = "none"
              /\ flow.report.value[2] # 0

\* The token scraper has matched both of two targets, created the playlist,
\* posted the two URIs and returned success; the caller has its rate.
C21_Witness ==
    /\ flow.pc = "reported"
    /\ flow.cls = "token"
    /\ flow.result.success
    /\ flow.result.tracks_found = 2
    /\ flow.result.tracks_requested = 2
    /\ Len(AddsSent) = 1
    /\ Len(AddsSent[1].uris) = 2
    /\ flow.report.value = <<200, 2>>

\* The playlist after the add requests sent: the URIs of those that
\* succeeded, in the order sent; no request takes a track away.
PlaylistAfterAdds ==
    Flatten([k \in 1..Len(AddsSent) |->
                IF Succeeded(AddsSent[k].outcome) THEN AddsSent[k].uris ELSE <<>>])

\* The k-th batch request of the token scraper's add_tracks_to_playlist
\* failed: the k-1 before it are in the playlist, it is the last request
\* and sent once, and the method has returned False.
FailedBatchEndsAdd(k) ==
    /\ \A j \in 1..(k - 1) : Succeeded(AddsSent[j].outcome)
    /\ k = Len(AddsSent)
    /\ PlaylistAfterAdds = SubSeq(add.track_uris, 1, (k - 1) * 100)
    /\ add.pc = "done"
    /\ add.result = FALSE

(***************************************************************************)
(* C22: adding tracks is not atomic: when the k-th batch request of the    *)
(* token scraper's add_tracks_to_playlist fails, the k-1 earlier batches   *)
(* stay in the playlist, no later batch is sent, nothing is retried or     *)
(* rolled back, and add_tracks_to_playlist returns False.                  *)
(***************************************************************************)
C22_FailedBatchReturnsFalse ==
    add.cls = "token" =>
        \A k \in 1..Len(AddsSent) :
            ~Succeeded(AddsSent[k].outcome) => FailedBatchEndsAdd(k)

\* The same for a batch request that failed with an error status, or failed
\* after an earlier batch had been answered.
C22_RefusedBatchReturnsFalse ==
    add.cls = "token" =>
        \A k \in 1..Len(AddsSent) :
            (~Succeeded(AddsSent[k].outcome)
                /\ (AddsSent[k].outcome.kind = "response" \/ k > 1)) =>
                    FailedBatchEndsAdd(k)

\* C22, second half: create_playlist_from_songs of the token scraper, back
\* from an add that returned False, returns success False with the id and
\* the URL of the playlist it created.
C22_FailedAddKeepsPlaylistInResult ==
    (flow.cls = "token" /\ flow.pc \in {"done", "reported"}
                       /\ add.pc = "done" /\ ~add.result) =>
        /\ flow.result.success = FALSE
        /\ flow.result.playlist_id = add.playlist_id
        /\ flow.result.playlist_id # ""
        /\ flow.result.playlist_url = PlaylistUrl(add.playlist_id)
        /\ \E j \in Sent("create_playlist") :
              ReturnedId(j) /\ sent[j].outcome.body.v.id = flow.result.playlist_id

\* Every search_track call of the batch so far has returned its list.
SearchesReturned ==
    \A k \in 1..Len(sent) : SearchTrack(batch.cls, sent[k].outcome).exc = "none"

(***************************************************************************)
(* C23: search_tracks_batch of the web and of the token scraper never      *)
(* raises and processes all targets: whatever lists search_track returns,  *)
(* a list with an accepted best match whose artist_names is empty          *)
(* included, the batch runs to its return, with one search per target.     *)
(***************************************************************************)
C23_BatchNeverRaises ==
    (batch.cls \in Classes /\ SearchesReturned) =>
        /\ batch.pc # "raised"
        /\ batch.pc = "done" => Len(sent) = Len(batch.songs_and_artists)

\* A search_track call of either scraper has returned on a response with
\* tracksV2 items.
SearchReturnedOnItems ==
    /\ call.pc = "done"
    /\ call.method = "search_track"
    /\ Succeeded(call.outcome)
    /\ HasItems(call.outcome.body)

\* The tracksV2 items of the response of the call.
ResponseItems == call.outcome.body.v.data.v.searchV2.v.tracksV2.v.items.v

\* The name, uri and artists of the track are members of track.
FieldsIn(track) ==
    /\ track.t = "dict"
    /\ {"name", "uri", "artists"} \subseteq DOMAIN track.v

\* The track the response describes in track: its name, its URI, and the
\* profile names of its artists in order.
RealTrack(track) ==
    [name |-> track.v.name, uri |-> track.v.uri,
     artist_names |-> [k \in 1..Len(track.v.artists.v.items.v) |->
                          track.v.artists.v.items.v[k].v.profile.v.name]]

\* The item keeps the track fields under item['item']['data'].
UnderData(item) ==
    /\ "item" \in DOMAIN item.v
    /\ item.v.item.t = "dict"
    /\ "data" \in DOMAIN item.v.item.v
    /\ FieldsIn(item.v.item.v.data)

\* The item keeps the track fields in item['item'] itself.
UnderItem(item) ==
    /\ "item" \in DOMAIN item.v
    /\ FieldsIn(item.v.item)

\* The call has returned the track among its tracks.
Extracted(track) ==
    \E j \in 1..Len(call.value.v) : call.value.v[j] = track

(***************************************************************************)
(* C24: search_track hands item['item'] of each tracksV2 item to           *)
(* _extract_track_info; for an item whose name, uri and                    *)
(* artists.items[].profile.name are under item['item']['data'] the         *)
(* extracted track has the name, the URI and the artist names of the       *)
(* response, in order, and not the defaults 'Unknown', '' and no artist.   *)
(***************************************************************************)
C24_FieldsUnderDataExtracted ==
    SearchReturnedOnItems =>
        \A k \in 1..Len(ResponseItems) :
            UnderData(ResponseItems[k]) =>
                /\ Extracted(RealTrack(ResponseItems[k].v.item.v.data))
                /\ ~Extracted([name |-> DefaultName, uri |-> DefaultUri,
                               artist_names |-> <<>>])

\* The same for an item whose track fields are members of item['item']: those
\* the code reads.
C24_FieldsUnderItemExtracted ==
    SearchReturnedOnItems =>
        \A k \in 1..Len(ResponseItems) :
            UnderItem(ResponseItems[k]) =>
                Extracted(RealTrack(ResponseItems[k].v.item))

(***************************************************************************)
(* C25: the two copies of the matcher are equivalent: on every target and  *)
(* every list of candidates, SpotifyWebScraper._find_best_match (the       *)
(* invocation of frame 1) and SpotifyTokenScraper._find_best_match give    *)
(* each candidate the same score, and return the same candidate or both    *)
(* None.                                                                   *)
(***************************************************************************)
C25_CopiesEquivalent ==
    LET fr == frame[1]
    IN  /\ fr.pc = "update" =>
              fr.score = TokenTrackScore(fr.target_song, fr.target_artist,
                                         fr.tracks[fr.i])
        /\ fr.pc = "done" =>
              fr.result = TokenFindBestMatch(fr.target_song, fr.target_artist,
                                             fr.tracks)

\* Both copies have returned the second of MaxTracks candidates, which they
\* scored 6 after a first they scored less.
C25_Witness ==
    LET fr == frame[1]
    IN  /\ fr.pc = "done"
        /\ Len(fr.tracks) = MaxTracks
        /\ fr.result = 2
        /\ TokenFindBestMatch(fr.target_song, fr.target_artist, fr.tracks) = 2
        /\ fr.best_score = 6
        /\ TokenTrackScore(fr.target_song, fr.target_artist, fr.tracks[2]) = 6
        /\ TokenTrackScore(fr.target_song, fr.target_artist, fr.tracks[1]) \in 1..5

\* The value of a decimal digit character, 10 for any other character.
DigitValue(c) ==
    CASE c = "0" -> 0 [] c = "1" -> 1 [] c = "2" -> 2 [] c = "3" -> 3
      [] c = "4" -> 4 [] c = "5" -> 5 [] c = "6" -> 6 [] c = "7" -> 7
      [] c = "8" -> 8 [] c = "9" -> 9 [] OTHER -> 10

\* The string is a numeral: digits, at least one.
IsNumeral(str) ==
    str # <<>> /\ \A k \in 1..Len(str) : DigitValue(str[k]) < 10

RECURSIVE NumberOf(_)
\* The number a numeral stands for.
NumberOf(str) ==
    IF str = <<>> THEN 0
    ELSE NumberOf(SubSeq(str, 1, Len(str) - 1)) * 10 + DigitValue(str[Len(str)])

\* The string before and the string after the colon of a string with one
\* colon.
ColonAt(str) == CHOOSE k \in 1..Len(str) : str[k] = ":"

MinutesField(str) == SubSeq(str, 1, ColonAt(str) - 1)

SecondsField(str) == SubSeq(str, ColonAt(str) + 1, Len(str))

=============================================================================
